---------------------------- MODULE Spec2Model ----------------------------
(***************************************************************************)
(* The authenticated Constant Contact client (lib/constantContact):        *)
(* ccFetchJson, getAccessToken, ccFetchJsonWithToken, refreshAccessToken    *)
(* and safeJson, run by several concurrent callers on one JavaScript event  *)
(* loop.                                                                    *)
(*                                                                          *)
(* Scheduling.  A network event (a fetch() promise or a res.text() promise  *)
(* settling) is delivered by the event loop only when the microtask queue   *)
(* is empty; the continuation of the awaiting async function runs at once.  *)
(* Promise reactions that the continuation triggers are appended to the     *)
(* FIFO microtask queue mq and run, in order, before the next network       *)
(* event.  Reactions that touch no shared state (the propagation of a       *)
(* return value or of an exception through `return await`) are folded into  *)
(* the step that triggers them.                                             *)
(***************************************************************************)
EXTENDS Integers, Sequences, FiniteSets, TLC

(* Number of concurrent ccFetchJson calls. *)
NumCalls == 2

Calls == 1..NumCalls

(***************************************************************************)
(* JavaScript values.  undefined, null and "" are all falsy; the code only  *)
(* ever tests them with `!v`, `??` or `||`.                                 *)
(***************************************************************************)
Absent == ""

JsNull == [type |-> "null", str |-> "", fields |-> {}]
JsString(s) == [type |-> "string", str |-> s, fields |-> {}]
JsObject(fs) == [type |-> "object", str |-> "", fields |-> fs]
EmptyObject == JsObject({})

(* v.k : the value of property k, undefined (Absent) when v has none. *)
Get(v, k) ==
    IF \E p \in v.fields : p[1] = k
    THEN (CHOOSE p \in v.fields : p[1] = k)[2]
    ELSE Absent

(* a || b || ... : the first truthy operand, else the last one. *)
RECURSIVE FirstTruthy(_)
FirstTruthy(xs) ==
    IF Len(xs) = 1 \/ Head(xs) # Absent THEN Head(xs) ELSE FirstTruthy(Tail(xs))

(* a ?? b *)
Coalesce(a, b) == IF a = JsNull THEN b ELSE a

(***************************************************************************)
(* Response bodies the upstream services are modelled to send.             *)
(***************************************************************************)
EmptyText == ""
ContactsText == "{\"contacts\":[]}"
NotFoundText == "{\"message\":\"Not Found\"}"
GrantText == "{\"error\":\"invalid_grant\"}"
NullText == "null"
HtmlText == "<html>Bad Gateway</html>"
BraceText == "{}"
Token2Text == "{\"access_token\":\"T2\",\"refresh_token\":\"R2\"}"
Token3Text == "{\"access_token\":\"T3\"}"

(* JSON.parse on the texts above; HtmlText (and the empty text) throw. *)
Parseable ==
    {ContactsText, NotFoundText, GrantText, NullText, BraceText, Token2Text, Token3Text}

JSONparse(text) ==
    CASE text = ContactsText -> JsObject({<<"contacts", "[]">>})
      [] text = NotFoundText -> JsObject({<<"message", "Not Found">>})
      [] text = GrantText -> JsObject({<<"error", "invalid_grant">>})
      [] text = BraceText -> EmptyObject
      [] text = Token2Text -> JsObject({<<"access_token", "T2">>, <<"refresh_token", "R2">>})
      [] text = Token3Text -> JsObject({<<"access_token", "T3">>})
      [] OTHER -> JsNull

safeJson(text) == IF text \in Parseable THEN JSONparse(text) ELSE JsNull

(* const data = text ? safeJson(text) : null *)
ParseBody(text) == IF text # Absent THEN safeJson(text) ELSE JsNull

(***************************************************************************)
(* HTTP statuses.  res.ok is true for 200..299.                            *)
(***************************************************************************)
NoStatus == 0
Unauthorized == 401
(* Mutant: the `if (!res.ok)` check is missing, every response counts as ok. *)
ResOkAlways(status) == TRUE

ResOk(status) == status >= 200 /\ status <= 299

(* Errors: an Error object with optional status and details. *)
MkError(message, status, details) ==
    [message |-> message, status |-> status, details |-> details]
NoError == MkError("", NoStatus, JsNull)
NetworkError == MkError("fetch failed", NoStatus, JsNull)
MissingEnv(name) == MkError("Missing environment variable: " \o name, NoStatus, JsNull)

(* Mutant: requireEnv returns whatever is there, without the check.         *)
EnvNeverMissing(e, name) == FALSE

(* requireEnv(name): the value, or the error it throws. *)
EnvMissing(e, name) == e[name] = Absent


(***************************************************************************)
(* Requests.  FetchOpts: method?, path, query?, body?.                     *)
(***************************************************************************)
UndefinedParam == "<undefined>"

ListOpts ==
    [method |-> Absent, path |-> "/contacts",
     query |-> {<<"limit", "10">>, <<"status", UndefinedParam>>}, body |-> JsNull]
CreateOpts ==
    [method |-> "POST", path |-> "/contacts", query |-> {},
     body |-> JsObject({<<"first_name", "Ada">>})]
(* The request call t is given: odd calls list contacts, even calls create one. *)
OptsFor(t) == IF t % 2 = 1 THEN {ListOpts} ELSE {CreateOpts}

(* baseUrl.replace(/\/$/, "") on the configured base URLs. *)
StripSlash(baseUrl) ==
    IF baseUrl = "https://api.cc.email/v3/" THEN "https://api.cc.email/v3" ELSE baseUrl

(* JSON.stringify on the request bodies of the modelled requests: the      *)
(* object of the baseline request, or a payload of the POST handler, a      *)
(* function from property paths to values (see CreatePayload) whose         *)
(* undefined properties are left out and of whose arrays only the length is *)
(* modelled.                                                                *)
JsonMemberName(path) ==
    CASE path = "email_address.address" -> "address"
      [] path = "email_address.permission_to_send" -> "permission_to_send"
      [] path = "sms_channel.full_sms_address" -> "full_sms_address"
      [] path = "sms_channel.sms_channel_consents" -> "sms_channel_consents"
      [] OTHER -> path
JsonMembersOf(path) ==
    CASE path = "email_address" ->
            <<"email_address.address", "email_address.permission_to_send">>
      [] path = "sms_channel" ->
            <<"sms_channel.full_sms_address", "sms_channel.sms_channel_consents">>
      [] OTHER ->
            <<"create_source", "first_name", "last_name", "company_name", "job_title",
              "birthday_month", "birthday_day", "anniversary", "phone_numbers",
              "street_addresses", "notes", "custom_fields", "list_memberships",
              "taggings", "email_address", "sms_channel">>
(* values.join(","): also how JSON.stringify separates members. *)
RECURSIVE Join(_)
Join(values) ==
    IF values = <<>> THEN ""
    ELSE IF Len(values) = 1 THEN Head(values)
    ELSE Head(values) \o "," \o Join(Tail(values))
RECURSIVE JsonMembers(_, _)
JsonMembers(payload, paths) ==
    IF paths = <<>> THEN <<>>
    ELSE LET v == payload[Head(paths)]
             text ==
                CASE v.type = "string" -> "\"" \o v.str \o "\""
                  [] v.type = "number" -> IF v.str = "NaN" THEN "null" ELSE ToString(v.n)
                  [] v.type = "array" -> "[" \o ToString(v.n) \o " items]"
                  [] v.type = "object" ->
                        "{" \o Join(JsonMembers(payload, JsonMembersOf(Head(paths))))
                            \o "}"
                  [] OTHER -> "null"
         IN  (IF v.type = "undefined" THEN <<>>
              ELSE <<"\"" \o JsonMemberName(Head(paths)) \o "\":" \o text>>)
             \o JsonMembers(payload, Tail(paths))
JSONstringify(v) ==
    IF v = JsObject({<<"first_name", "Ada">>}) THEN "{\"first_name\":\"Ada\"}"
    ELSE IF "create_source" \in DOMAIN v
    THEN "{" \o Join(JsonMembers(v, JsonMembersOf(""))) \o "}"
    ELSE "{}"

(* The fetch() call of ccFetchJsonWithToken: URL, method, headers, body. *)
BuildRequest(baseUrl, token, o) ==
    [url |-> [base |-> StripSlash(baseUrl), path |-> o.path,
              params |-> {p \in o.query : p[2] # UndefinedParam}],
     method |-> IF o.method = Absent THEN "GET" ELSE o.method,
     authorization |-> "Bearer " \o token,
     token |-> token,
     accept |-> "application/json",
     contentType |-> IF o.body # JsNull THEN "application/json" ELSE Absent,
     body |-> IF o.body # JsNull THEN JSONstringify(o.body) ELSE Absent]

(* The POST body of the token request. *)
TokenRequest(by, clientId, refreshToken) ==
    [by |-> by, grant_type |-> "refresh_token",
     refresh_token |-> refreshToken, client_id |-> clientId]

(***************************************************************************)
(* What ccFetchJsonWithToken makes of a response (lines 74-88).            *)
(***************************************************************************)
DataErrorMessage(status, data) ==
    LET m == IF data # JsNull
             THEN FirstTruthy(<<Get(data, "message"), Get(data, "error"),
                                Get(data, "title"), Get(data, "error_message")>>)
             ELSE Absent
    IN  IF m # Absent THEN m
        ELSE "Constant Contact API error (" \o ToString(status) \o ")"

(* err.details = data ?? text *)
Details(data, text) == IF data # JsNull THEN data ELSE JsString(text)

DataError(status, text) ==
    LET data == ParseBody(text)
    IN  MkError(DataErrorMessage(status, data), status, Details(data, text))

(* Mutant: the parsed body is returned as it is, without the `?? {}`. *)
DataResultNoDefault(status, text) == [status |-> status, data |-> ParseBody(text)]

(* return { status: res.status, data: data ?? {} } *)
DataResult(status, text) ==
    [status |-> status, data |-> Coalesce(ParseBody(text), EmptyObject)]

(***************************************************************************)
(* What the refresh makes of the token endpoint's response (112-136).      *)
(***************************************************************************)
RefreshErrorMessage(status, json) ==
    LET m == IF json # JsNull
             THEN FirstTruthy(<<Get(json, "error_description"), Get(json, "error"),
                                Get(json, "message")>>)
             ELSE Absent
    IN  IF m # Absent THEN m
        ELSE "Failed to refresh Constant Contact token (" \o ToString(status) \o ")"

(* Mutant: the error is built from a message alone, as in                   *)
(* refreshConstantContactToken, and carries neither status nor details.    *)
RefreshErrorMessageOnly(status, text) ==
    MkError("Failed to refresh token (" \o ToString(status) \o "): " \o text,
            NoStatus, JsNull)

RefreshError(status, text) ==
    LET json == ParseBody(text)
    IN  MkError(RefreshErrorMessage(status, json), status, Details(json, text))

NoAccessTokenError ==
    MkError("Token refresh succeeded but no access_token was returned.", NoStatus, JsNull)

(* tokenResp.access_token, with tokenResp = json ?? {} *)
IssuedToken(text) == Get(Coalesce(ParseBody(text), EmptyObject), "access_token")


(***************************************************************************)
(* State.                                                                   *)
(***************************************************************************)
VARIABLES
    env,              \* process.env: the four configuration values
    accessTokenCache, \* let accessTokenCache (Absent when null)
    refreshInFlight,  \* let refreshInFlight: NoPromise, or the refresh promise
    refresh,          \* the refresh promises, named by the call that created them
    waiters,          \* waiters[p]: the calls awaiting refresh promise p, in order
    pc,               \* pc[t]: where call t of ccFetchJson stands
    opts,             \* opts[t]: the FetchOpts call t was given
    res,              \* res[t]: the response the current attempt of call t received
    caught,           \* caught[t]: the error e in the catch block of call t
    awaiting,         \* awaiting[t]: the refresh promise call t awaits
    result,           \* result[t]: what call t returned or threw
    sent,             \* sent[t]: the data requests call t has sent
    tokenLog,         \* the POSTs sent to the token endpoint
    mq,               \* the microtask queue
    when401,          \* when401[t]: had a refresh settled when t first saw its 401
    slotAtCatch,      \* slotAtCatch[t]: per call of refreshAccessToken by t, was the
                      \* slot "empty" or "occupied" on entry
    burst,            \* the calls started while every earlier call was still
                      \* waiting for its first response
    response,         \* response[t]: the HTTP response the route handler that made
                      \* call t gave
    request,          \* request[t]: the HTTP request the route handler that made
                      \* call t was given
    open,             \* ContactsPage: const [open, setOpen]
    selectedId,       \* ContactsPage: const [selectedId, setSelectedId]
    selected,         \* ContactsPage: const [selected, setSelected]
    modalLoading,     \* ContactsPage: const [modalLoading, setModalLoading]
    modalError,       \* ContactsPage: const [modalError, setModalError]
    loads             \* loads[k]: the k-th invocation of openModal: its contactId
                      \* and where it stands

vars ==
    <<env, accessTokenCache, refreshInFlight, refresh, waiters, pc, opts, res, caught,
      awaiting, result, sent, tokenLog, mq, when401, slotAtCatch, burst, response,
      request, open, selectedId, selected, modalLoading, modalError, loads>>

(* The state of the server module and its handlers. *)
serverVars ==
    <<env, accessTokenCache, refreshInFlight, refresh, waiters, pc, opts, res, caught,
      awaiting, result, sent, tokenLog, mq, when401, slotAtCatch, burst, response,
      request>>

(* The state of the contacts page in the browser. *)
pageVars == <<open, selectedId, selected, modalLoading, modalError, loads>>

NoPromise == 0
NoRes == [status |-> NoStatus, text |-> Absent]
NoResult == [kind |-> "none", status |-> NoStatus, data |-> JsNull, error |-> NoError]
Returned(r) == [kind |-> "ok", status |-> r.status, data |-> r.data, error |-> NoError]
Thrown(e) == [kind |-> "error", status |-> NoStatus, data |-> JsNull, error |-> e]
(* The JSON body of a handler's response: the data ccFetchJson returned, or *)
(* { error, details }.                                                      *)
DataBody(data) == [kind |-> "data", data |-> data, error |-> Absent, details |-> JsNull]
ErrorBody(message, details) ==
    [kind |-> "error", data |-> JsNull, error |-> message, details |-> details]
NoResponse == [status |-> NoStatus, body |-> DataBody(JsNull)]
NoRefresh ==
    [state |-> "none", res |-> NoRes, value |-> Absent, error |-> NoError,
     cacheAtStart |-> Absent]

(* Responses the contact service and the token endpoint may give.  The     *)
(* first attempt of a call is answered with any status of DataStatuses, its *)
(* retry with one status of each kind the code tells apart.                *)
DataStatuses == {200, 202, 204, 400, 401, 403, 404, 409, 500, 503}
RetryStatuses == {200, 204, 401, 500}
DataStatusesFor(attempt) == IF attempt = 1 THEN DataStatuses ELSE RetryStatuses
DataTextsFor(status) ==
    CASE status = 204 -> {EmptyText}
      [] status = 202 -> {EmptyText, ContactsText}
      [] status = 200 -> {EmptyText, ContactsText, NullText, HtmlText}
      [] status = 401 -> {EmptyText, NotFoundText}
      [] status = 400 -> {EmptyText, NotFoundText, HtmlText, GrantText}
      [] OTHER -> {EmptyText, NotFoundText, HtmlText}
TokenStatuses == {200, 400, 401}
TokenTextsFor(status) ==
    IF ResOk(status) THEN {Token2Text, Token3Text, BraceText, EmptyText}
    ELSE {GrantText, EmptyText}

FullEnv ==
    [CC_BASE_URL |-> "https://api.cc.email/v3/", CC_CLIENT_ID |-> "client-1",
     CC_ACCESS_TOKEN |-> "T1", CC_REFRESH_TOKEN |-> "R1"]

(* The configurations the process may be started with: each of the four     *)
(* variables is set, or is missing.                                        *)
Configs ==
    {[CC_BASE_URL |-> b, CC_CLIENT_ID |-> c, CC_ACCESS_TOKEN |-> a, CC_REFRESH_TOKEN |-> r] :
        b \in {FullEnv.CC_BASE_URL, Absent}, c \in {FullEnv.CC_CLIENT_ID, Absent},
        a \in {FullEnv.CC_ACCESS_TOKEN, Absent}, r \in {FullEnv.CC_REFRESH_TOKEN, Absent}}

(* No request: the call was not made by a modelled handler invocation. *)
NoRequest == [handler |-> "none"]

(* The invocations of openModal, the contacts they ask for, the contact the *)
(* page holds (null: NoContact) and an invocation not yet made.             *)
MaxOpens == 3
Opens == 1..MaxOpens
ContactIds == {"c-1", "c-2"}
NoContact == [kind |-> "null", contact_id |-> Absent]
Contact(id) == [kind |-> "contact", contact_id |-> id]
NoLoad == [contactId |-> Absent, stage |-> "none", status |-> NoStatus]

Settled(p) == refresh[p].state \in {"fulfilled", "rejected"}
InFlight(p) == refresh[p].state \in {"fetching", "reading"}

InitWith(e) ==
    /\ env = e
    /\ accessTokenCache = e.CC_ACCESS_TOKEN
    /\ refreshInFlight = NoPromise
    /\ refresh = [p \in Calls |-> NoRefresh]
    /\ waiters = [p \in Calls |-> <<>>]
    /\ pc = [t \in Calls |-> "idle"]
    /\ opts = [t \in Calls |-> ListOpts]
    /\ res = [t \in Calls |-> NoRes]
    /\ caught = [t \in Calls |-> NoError]
    /\ awaiting = [t \in Calls |-> NoPromise]
    /\ result = [t \in Calls |-> NoResult]
    /\ sent = [t \in Calls |-> <<>>]
    /\ tokenLog = <<>>
    /\ mq = <<>>
    /\ when401 = [t \in Calls |-> "never"]
    /\ slotAtCatch = [t \in Calls |-> <<>>]
    /\ burst = {}
    /\ response = [t \in Calls |-> NoResponse]
    /\ request = [t \in Calls |-> NoRequest]
    /\ open = FALSE
    /\ selectedId = Absent
    /\ selected = NoContact
    /\ modalLoading = FALSE
    /\ modalError = Absent
    /\ loads = [k \in Opens |-> NoLoad]

(* The process started with every variable set. *)
Init == InitWith(FullEnv)

(* The process started with any configuration. *)
ConfigInit == \E e \in Configs : InitWith(e)

(***************************************************************************)
(* ccFetchJson, up to its first await (lines 27-32, 43-52, 54-72).         *)
(***************************************************************************)
(* Mutant: the token is always re-read from process.env.                    *)
getAccessTokenFromEnv(cache, e) == e.CC_ACCESS_TOKEN

(* Mutant: no fallback to process.env when the cache is empty.              *)
getAccessTokenNoFallback(cache, e) == cache

(* getAccessToken: the cache after the fallback to process.env. *)
getAccessToken(cache, e) == IF cache = Absent THEN e.CC_ACCESS_TOKEN ELSE cache

(* ccFetchJson settles its promise: the reaction of the awaiting caller is  *)
(* queued behind the microtasks in `rest`.                                 *)
Fail(t, e, rest) ==
    /\ pc' = [pc EXCEPT ![t] = "failed"]
    /\ result' = [result EXCEPT ![t] = Thrown(e)]
    /\ mq' = Append(rest, <<"return", t>>)

Succeed(t, r, rest) ==
    /\ pc' = [pc EXCEPT ![t] = "done"]
    /\ result' = [result EXCEPT ![t] = Returned(r)]
    /\ mq' = Append(rest, <<"return", t>>)

StartCall(t, o) ==
    /\ mq = <<>>
    /\ pc[t] = "idle"
    /\ IF t = 1 THEN TRUE ELSE pc[t - 1] # "idle"
    /\ opts' = [opts EXCEPT ![t] = o]
    /\ IF EnvMissing(env, "CC_BASE_URL")
       THEN /\ Fail(t, MissingEnv("CC_BASE_URL"), mq)
            /\ UNCHANGED <<accessTokenCache, sent>>
       ELSE LET token == getAccessToken(accessTokenCache, env)
            IN  /\ accessTokenCache' = token
                /\ IF token = Absent
                   THEN /\ Fail(t, MissingEnv("CC_ACCESS_TOKEN"), mq)
                        /\ UNCHANGED sent
                   ELSE /\ pc' = [pc EXCEPT ![t] = "fetch1"]
                        /\ sent' = [sent EXCEPT
                               ![t] = <<BuildRequest(env.CC_BASE_URL, token, o)>>]
                        /\ UNCHANGED <<result, mq>>
    /\ burst' = IF \A u \in Calls : pc[u] \in {"idle", "fetch1", "text1"}
                THEN burst \cup {t} ELSE burst
    /\ UNCHANGED <<env, refreshInFlight, refresh, waiters, res, caught, awaiting,
                   tokenLog, when401, slotAtCatch, response, pageVars>>


(***************************************************************************)
(* ccFetchJsonWithToken: await fetch(...), then await res.text(), then the  *)
(* status check (lines 63-88).  The attempt is Len(sent[t]).               *)
(***************************************************************************)
Attempt(t) == Len(sent[t])

(* Mutant: the retry sits inside the try block too, its error is caught again. *)
ErrorAlwaysCaught(attempt) == "catch"

(* An error of the first attempt is caught by ccFetchJson (line 33); the    *)
(* retry is outside any try block, so its error leaves ccFetchJson.        *)
ErrorGoesTo(attempt) == IF attempt = 1 THEN "catch" ELSE "failed"

Raise(t, e) ==
    IF ErrorGoesTo(Attempt(t)) = "catch"
    THEN /\ pc' = [pc EXCEPT ![t] = "catch"]
         /\ caught' = [caught EXCEPT ![t] = e]
         /\ mq' = Append(mq, <<"catch", t>>)
         /\ UNCHANGED result
    ELSE /\ Fail(t, e, mq)
         /\ UNCHANGED caught

(* fetch() resolves with a response carrying `status`. *)
DataFetchSettle(t, status) ==
    /\ mq = <<>>
    /\ pc[t] \in {"fetch1", "fetch2"}
    /\ pc' = [pc EXCEPT ![t] = IF pc[t] = "fetch1" THEN "text1" ELSE "text2"]
    /\ res' = [res EXCEPT ![t] = [status |-> status, text |-> Absent]]
    /\ UNCHANGED <<env, accessTokenCache, refreshInFlight, refresh, waiters, opts,
                   caught, awaiting, result, sent, tokenLog, mq, when401, slotAtCatch,
                   burst, response, request,
                   pageVars>>

(* fetch() rejects: no response, an error without status. *)
DataFetchFail(t) ==
    /\ mq = <<>>
    /\ pc[t] \in {"fetch1", "fetch2"}
    /\ Raise(t, NetworkError)
    /\ UNCHANGED <<env, accessTokenCache, refreshInFlight, refresh, waiters, opts,
                   res, awaiting, sent, tokenLog, when401, slotAtCatch, burst, response, request,
                   pageVars>>

(* res.text() resolves with `text`; the rest of ccFetchJsonWithToken runs. *)
DataTextSettle(t, text) ==
    /\ mq = <<>>
    /\ pc[t] \in {"text1", "text2"}
    /\ res' = [res EXCEPT ![t].text = text]
    /\ IF ~ResOk(res[t].status)
       THEN Raise(t, DataError(res[t].status, text))
       ELSE /\ Succeed(t, DataResult(res[t].status, text), mq)
            /\ UNCHANGED caught
    /\ when401' =
         IF pc[t] = "text1" /\ res[t].status = Unauthorized
         THEN [when401 EXCEPT
                  ![t] = IF \E p \in Calls : Settled(p) THEN "late" ELSE "early"]
         ELSE when401
    /\ UNCHANGED <<env, accessTokenCache, refreshInFlight, refresh, waiters, opts,
                   awaiting, sent, tokenLog, slotAtCatch, burst, response, request,
                   pageVars>>

(***************************************************************************)
(* The catch block of ccFetchJson (lines 33-40) and the synchronous part   *)
(* of refreshAccessToken (lines 91-110, 139-140).                          *)
(***************************************************************************)
(* Mutant: any error that carries a status triggers the refresh. *)
ShouldRefreshAnyStatus(e) == e.status # NoStatus

(* if (e?.status === 401) *)
ShouldRefresh(e) == e.status = Unauthorized

(* Mutant: the in-flight check is missing, every call starts its own refresh. *)
JoinsNever(slot) == FALSE

(* if (refreshInFlight) return refreshInFlight; *)
Joins(slot) == slot # NoPromise

(* const clientId = requireEnv("CC_CLIENT_ID") *)
clientId(e) == e.CC_CLIENT_ID

(* Mutant: the refresh token of the latest successful refresh response is   *)
(* adopted for the next refresh.                                            *)
refreshTokenRotated(e) ==
    LET rotated == {i \in 1..Len(tokenLog) :
                      /\ refresh[tokenLog[i].by].state = "fulfilled"
                      /\ Get(ParseBody(refresh[tokenLog[i].by].res.text), "refresh_token")
                            # Absent}
    IN  IF rotated = {} THEN e.CC_REFRESH_TOKEN
        ELSE LET i == CHOOSE i \in rotated : \A j \in rotated : j <= i
             IN  Get(ParseBody(refresh[tokenLog[i].by].res.text), "refresh_token")

(* const refreshToken = requireEnv("CC_REFRESH_TOKEN") *)
refreshToken(e) == e.CC_REFRESH_TOKEN

(* Mutant: the credentials are read without requireEnv, the POST is sent    *)
(* whatever they are.                                                       *)
StartRefreshUnchecked(t) ==
    [NoRefresh EXCEPT !.state = "fetching", !.cacheAtStart = accessTokenCache]

(* The async arrow function up to its first await: the promise it leaves.  *)
StartRefresh(t) ==
    IF EnvMissing(env, "CC_CLIENT_ID")
    THEN [NoRefresh EXCEPT !.state = "rejected", !.error = MissingEnv("CC_CLIENT_ID"),
                           !.cacheAtStart = accessTokenCache]
    ELSE IF EnvMissing(env, "CC_REFRESH_TOKEN")
    THEN [NoRefresh EXCEPT !.state = "rejected", !.error = MissingEnv("CC_REFRESH_TOKEN"),
                           !.cacheAtStart = accessTokenCache]
    ELSE [NoRefresh EXCEPT !.state = "fetching", !.cacheAtStart = accessTokenCache]

refreshAccessToken(t) ==
    /\ slotAtCatch' = [slotAtCatch EXCEPT
           ![t] = Append(@, IF refreshInFlight = NoPromise THEN "empty" ELSE "occupied")]
    /\ pc' = [pc EXCEPT ![t] = "awaitRefresh"]
    /\ IF Joins(refreshInFlight)
       THEN /\ awaiting' = [awaiting EXCEPT ![t] = refreshInFlight]
            /\ waiters' = [waiters EXCEPT ![refreshInFlight] = Append(@, t)]
            /\ mq' = Tail(mq)
            /\ UNCHANGED <<refreshInFlight, refresh, tokenLog>>
       ELSE LET p == StartRefresh(t)
            IN  /\ refresh' = [refresh EXCEPT ![t] = p]
                /\ refreshInFlight' = t
                /\ awaiting' = [awaiting EXCEPT ![t] = t]
                /\ waiters' = [waiters EXCEPT ![t] = <<t>>]
                /\ IF p.state = "fetching"
                   THEN /\ tokenLog' = Append(tokenLog,
                              TokenRequest(t, clientId(env), refreshToken(env)))
                        /\ mq' = Tail(mq)
                   ELSE /\ tokenLog' = tokenLog
                        /\ mq' = Append(Tail(mq), <<"finally", t>>)

Catch(t) ==
    /\ mq # <<>>
    /\ Head(mq) = <<"catch", t>>
    /\ IF ShouldRefresh(caught[t])
       THEN /\ refreshAccessToken(t)
            /\ UNCHANGED result
       ELSE /\ Fail(t, caught[t], Tail(mq))
            /\ UNCHANGED <<refreshInFlight, refresh, waiters, awaiting, tokenLog,
                           slotAtCatch>>
    /\ caught' = [caught EXCEPT ![t] = NoError]
    /\ UNCHANGED <<env, accessTokenCache, opts, res, sent, when401, burst, response, request,
                   pageVars>>


(***************************************************************************)
(* The async arrow function of refreshAccessToken after its awaits (lines  *)
(* 98-137).  When its promise settles, the reaction of the creating call    *)
(* (its `await refreshInFlight`, registered first) is queued.              *)
(***************************************************************************)
RefreshFetchSettle(p, status) ==
    /\ mq = <<>>
    /\ refresh[p].state = "fetching"
    /\ refresh' = [refresh EXCEPT ![p].state = "reading",
                                  ![p].res = [status |-> status, text |-> Absent]]
    /\ UNCHANGED <<env, accessTokenCache, refreshInFlight, waiters, pc, opts, res, caught,
                   awaiting, result, sent, tokenLog, mq, when401, slotAtCatch, burst, response, request,
                   pageVars>>

RefreshFetchFail(p) ==
    /\ mq = <<>>
    /\ refresh[p].state = "fetching"
    /\ refresh' = [refresh EXCEPT ![p].state = "rejected", ![p].error = NetworkError]
    /\ mq' = <<<<"finally", p>>>>
    /\ UNCHANGED <<env, accessTokenCache, refreshInFlight, waiters, pc, opts, res, caught,
                   awaiting, result, sent, tokenLog, when401, slotAtCatch, burst, response, request,
                   pageVars>>

(* Mutant: the check for a missing access_token is left out. *)
LacksAccessTokenNever(token) == FALSE

(* if (!tokenResp.access_token) *)
LacksAccessToken(token) == token = Absent

(* Mutant: the new token is returned but not stored. *)
CacheNotUpdated(cache, token) == cache

(* accessTokenCache = tokenResp.access_token *)
CacheAfterRefresh(cache, token) == token

RefreshTextSettle(p, text) ==
    /\ mq = <<>>
    /\ refresh[p].state = "reading"
    /\ LET status == refresh[p].res.status
           token == IssuedToken(text)
       IN  IF ~ResOk(status)
           THEN /\ refresh' = [refresh EXCEPT ![p].state = "rejected",
                                              ![p].res.text = text,
                                              ![p].error = RefreshError(status, text)]
                /\ UNCHANGED accessTokenCache
           ELSE IF LacksAccessToken(token)
           THEN /\ refresh' = [refresh EXCEPT ![p].state = "rejected",
                                              ![p].res.text = text,
                                              ![p].error = NoAccessTokenError]
                /\ UNCHANGED accessTokenCache
           ELSE /\ accessTokenCache' = CacheAfterRefresh(accessTokenCache, token)
                /\ refresh' = [refresh EXCEPT ![p].state = "fulfilled",
                                              ![p].res.text = text,
                                              ![p].value = accessTokenCache']
    /\ mq' = <<<<"finally", p>>>>
    /\ UNCHANGED <<env, refreshInFlight, waiters, pc, opts, res, caught, awaiting, result,
                   sent, tokenLog, when401, slotAtCatch, burst, response, request,
                   pageVars>>

(***************************************************************************)
(* try { return await refreshInFlight } finally { refreshInFlight = null } *)
(* (lines 139-143), run by the call that created the promise.  The calls    *)
(* awaiting the promise resume after it, the creator first.                *)
(***************************************************************************)
(* Mutant: the finally block is missing, the slot keeps the settled promise. *)
SlotNotCleared(slot) == slot

SlotAfterFinally(slot) == NoPromise

(* Mutant: only the creator of the promise is resumed. *)
ResumesCreatorOnly(ts) == IF ts = <<>> THEN <<>> ELSE <<<<"resume", Head(ts)>>>>

RECURSIVE Resumes(_)
Resumes(ts) == IF ts = <<>> THEN <<>> ELSE <<<<"resume", Head(ts)>>>> \o Resumes(Tail(ts))

Finally(t) ==
    /\ mq # <<>>
    /\ Head(mq) = <<"finally", t>>
    /\ refreshInFlight' = SlotAfterFinally(refreshInFlight)
    /\ mq' = Tail(mq) \o Resumes(waiters[t])
    /\ UNCHANGED <<env, accessTokenCache, refresh, waiters, pc, opts, res, caught,
                   awaiting, result, sent, tokenLog, when401, slotAtCatch, burst, response, request,
                   pageVars>>

(***************************************************************************)
(* ccFetchJson after `await refreshAccessToken()` (lines 36-37): the retry  *)
(* with the token the promise was fulfilled with, or its error.            *)
(***************************************************************************)
(* Mutant: the retry is sent with the token the refresh started from.       *)
RetryTokenStale(p) == refresh[p].cacheAtStart

RetryToken(p) == refresh[p].value

Resume(t) ==
    /\ mq # <<>>
    /\ Head(mq) = <<"resume", t>>
    /\ IF refresh[awaiting[t]].state = "fulfilled"
       THEN /\ pc' = [pc EXCEPT ![t] = "fetch2"]
            /\ mq' = Tail(mq)
            /\ sent' = [sent EXCEPT ![t] = Append(@,
                          BuildRequest(env.CC_BASE_URL, RetryToken(awaiting[t]), opts[t]))]
            /\ res' = [res EXCEPT ![t] = NoRes]
            /\ UNCHANGED result
       ELSE /\ Fail(t, refresh[awaiting[t]].error, Tail(mq))
            /\ UNCHANGED <<sent, res>>
    /\ UNCHANGED <<env, accessTokenCache, refreshInFlight, refresh, waiters, opts, caught,
                   awaiting, tokenLog, when401, slotAtCatch, burst, response, request,
                   pageVars>>

(***************************************************************************)
(* The route handler that made the call (GET /api/contacts, POST            *)
(* /api/contacts, GET /api/contacts/[id]): its `await ccFetchJson(...)`     *)
(* receives the result or the error and the handler answers with            *)
(* NextResponse.json; the frame of the call, with its locals, is gone.      *)
(***************************************************************************)
(* Statuses of responses that cannot have a body (Fetch: null body status). *)
NullBodyStatuses == {101, 103, 204, 205, 304}

(* The TypeError of the Response constructor for a body with such a status. *)
InvalidStatusError(status) ==
    MkError("Response constructor: Invalid response status code " \o ToString(status),
            NoStatus, JsNull)

(* NextResponse.json(body, { status }): the response, or the error thrown.  *)
NextResponseJson(body, status) ==
    IF status \in NullBodyStatuses
    THEN [thrown |-> TRUE, error |-> InvalidStatusError(status),
          response |-> NoResponse]
    ELSE [thrown |-> FALSE, error |-> NoError,
          response |-> [status |-> status, body |-> body]]

(* return NextResponse.json({ error: e.message ?? "Unknown error",          *)
(*     details: e.details ?? null }, { status: e.status ?? 500 })           *)
ErrorResponse(e) ==
    NextResponseJson(ErrorBody(e.message, e.details),
                     IF e.status = NoStatus THEN 500 ELSE e.status).response

(* try { ...; return NextResponse.json(data, { status }) } catch (e) {...}  *)
(* The three handlers end alike; `status ?? 201` of the POST handler is the *)
(* status, which ccFetchJson always sets.                                   *)
HandlerResponse(r) ==
    IF r.kind = "ok"
    THEN LET made == NextResponseJson(DataBody(r.data), r.status)
         IN  IF made.thrown THEN ErrorResponse(made.error) ELSE made.response
    ELSE ErrorResponse(r.error)

Deliver(t) ==
    /\ mq # <<>>
    /\ Head(mq) = <<"return", t>>
    /\ mq' = Append(Tail(mq), <<"respond", t>>)
    /\ pc' = [pc EXCEPT ![t] = "returned"]
    /\ response' = [response EXCEPT ![t] = HandlerResponse(result[t])]
    /\ result' = [result EXCEPT ![t] = NoResult]
    /\ res' = [res EXCEPT ![t] = NoRes]
    /\ UNCHANGED <<env, accessTokenCache, refreshInFlight, refresh, waiters, opts, caught,
                   awaiting, sent, tokenLog, when401, slotAtCatch, burst,
                   request, pageVars>>

(* The promise of the handler is fulfilled with the response: the framework *)
(* takes it and writes it to the client.                                    *)
Respond(t) ==
    /\ mq # <<>>
    /\ Head(mq) = <<"respond", t>>
    /\ mq' = Tail(mq)
    /\ response' = [response EXCEPT ![t] = NoResponse]
    /\ UNCHANGED <<env, accessTokenCache, refreshInFlight, refresh, waiters, pc, opts, res,
                   caught, awaiting, result, sent, tokenLog, when401, slotAtCatch, burst,
                   request, pageVars>>

(***************************************************************************)
(* The route handlers' own validation (README.md, app/api/contacts/route.ts *)
(* and app/api/contacts/[id]/route.ts).  A query parameter is the string    *)
(* searchParams.get gives, or null (NullParam); a comma-separated parameter *)
(* is modelled by its pieces, the text between the commas (NullCsv: null).  *)
(***************************************************************************)
NullParam == "<null>"
NullCsv == <<>>

(* s.trim() on the modelled strings. *)
Trim(s) ==
    CASE s = " " -> ""
      [] s = " notes" -> "notes"
      [] s = " ada@example.com " -> "ada@example.com"
      [] s = " explicit " -> "explicit"
      [] s = " true " -> "true"
      [] s = " Ada " -> "Ada"
      [] s = " 3f2504e0-4f89-11d3-9a0c-0305e82c3301 " -> "3f2504e0-4f89-11d3-9a0c-0305e82c3301"
      [] OTHER -> s

(* s.toLowerCase() on the modelled strings. *)
ToLowerCase(s) == IF s = "TRUE" THEN "true" ELSE s

(* Number.parseInt(v, 10) on the modelled strings: the leading integer of   *)
(* the text, NaN when there is none.                                        *)
Num(n) == [nan |-> FALSE, n |-> n]
parseInt(v) ==
    CASE v = "50" -> Num(50)
      [] v = "1" -> Num(1)
      [] v = "500" -> Num(500)
      [] v = "0" -> Num(0)
      [] v = "501" -> Num(501)
      [] v = "-3" -> Num(-3)
      [] v = "10abc" -> Num(10)
      [] v = "1.5" -> Num(1)
      [] v = "12" -> Num(12)
      [] v = "25" -> Num(25)
      [] OTHER -> [nan |-> TRUE, n |-> 0]

(* clampInt(v, min, max): the number, or null. *)
clampInt(v, min, max) ==
    LET n == parseInt(v)
    IN  IF n.nan THEN [null |-> TRUE, n |-> 0]
        ELSE IF n.n < min \/ n.n > max THEN [null |-> TRUE, n |-> 0]
        ELSE [null |-> FALSE, n |-> n.n]

(* parseBoolean(v): "true", "false" (the booleans, as String writes them),  *)
(* or null.                                                                 *)
parseBoolean(v) ==
    LET b == ToLowerCase(Trim(v))
    IN  IF b = "true" THEN "true" ELSE IF b = "false" THEN "false" ELSE NullParam

(* parseCsv(v): split(","), trim each, drop the empty ones. *)
parseCsv(v) ==
    SelectSeq([i \in 1..Len(v) |-> Trim(v[i])], LAMBDA piece : piece # "")

(* A comma-separated parameter that is given and is not the empty string. *)
CsvTruthy(v) == v # NullCsv /\ v # <<"">>

(* A string parameter that is given and is not blank: val && val.trim(). *)
Given(v) == v # NullParam /\ Trim(v) # ""

ALLOWED_INCLUDE ==
    {"custom_fields", "list_memberships", "phone_numbers", "street_addresses",
     "taggings", "notes"}
ALLOWED_STATUS ==
    {"all", "active", "deleted", "not_set", "pending_confirmation", "temp_hold",
     "unsubscribed"}
ALLOWED_SMS_STATUS ==
    {"all", "explicit", "unsubscribed", "pending_confirmation", "not_set"}

(* The values the loop `for (const v of values)` rejects, in order. *)
NotAllowed(values, allowed) == SelectSeq(values, LAMBDA v : v \notin allowed)

(* What a handler does with a request: it answers 400 itself, it throws    *)
(* into its catch block, or it calls ccFetchJson with opts.                 *)
NoDetails == [type |-> "undefined", str |-> "", fields |-> {}]
NoOpts == [method |-> Absent, path |-> Absent, query |-> {}, body |-> JsNull]
Reject(message) ==
    [kind |-> "reject", opts |-> NoOpts,
     response |-> [status |-> 400, body |-> ErrorBody(message, NoDetails)]]
Throw(e) == [kind |-> "throw", opts |-> NoOpts, response |-> ErrorResponse(e)]
Call(o) == [kind |-> "call", opts |-> o, response |-> NoResponse]

DateParams ==
    <<"updated_after", "updated_before", "created_after", "created_before",
      "optout_after", "optout_before">>

(* GET /api/contacts, lines 828-962. *)
ListHandler(rq) ==
    LET limit == clampInt(IF rq.limit = NullParam THEN "50" ELSE rq.limit, 1, 500)
        include == parseCsv(rq.include)
        status == parseCsv(rq.status)
        lists == parseCsv(rq.lists)
        tags == parseCsv(rq.tags)
        smsStatus == parseCsv(rq.sms_status)
        q == {<<"limit", ToString(limit.n)>>}
             \cup (IF rq.include_count # NullParam
                   THEN {<<"include_count", parseBoolean(rq.include_count)>>} ELSE {})
             \cup (IF CsvTruthy(rq.include) THEN {<<"include", Join(include)>>} ELSE {})
             \cup (IF CsvTruthy(rq.status) THEN {<<"status", Join(status)>>} ELSE {})
             \cup (IF Given(rq.email) THEN {<<"email", Trim(rq.email)>>} ELSE {})
             \cup (IF CsvTruthy(rq.lists) THEN {<<"lists", Join(lists)>>} ELSE {})
             \cup (IF Given(rq.segment_id)
                   THEN {<<"segment_id", Trim(rq.segment_id)>>} ELSE {})
             \cup (IF CsvTruthy(rq.tags) THEN {<<"tags", Join(tags)>>} ELSE {})
             \cup {<<DateParams[i], Trim(rq.dates[i])>> :
                      i \in {j \in 1..Len(DateParams) : Given(rq.dates[j])}}
             \cup (IF CsvTruthy(rq.sms_status)
                   THEN {<<"sms_status", Join(smsStatus)>>} ELSE {})
    IN  IF limit.null
        THEN Reject("Bad request: limit must be an integer between 1 and 500.")
        ELSE IF rq.include_count # NullParam /\ parseBoolean(rq.include_count) = NullParam
        THEN Reject("Bad request: include_count must be true or false.")
        ELSE IF CsvTruthy(rq.include) /\ NotAllowed(include, ALLOWED_INCLUDE) # <<>>
        THEN Reject("Bad request: invalid include \""
                    \o Head(NotAllowed(include, ALLOWED_INCLUDE)) \o "\".")
        ELSE IF CsvTruthy(rq.status) /\ NotAllowed(status, ALLOWED_STATUS) # <<>>
        THEN Reject("Bad request: invalid status \""
                    \o Head(NotAllowed(status, ALLOWED_STATUS)) \o "\".")
        ELSE IF CsvTruthy(rq.lists) /\ Len(lists) > 25
        THEN Reject("Bad request: lists can have at most 25 items.")
        ELSE IF CsvTruthy(rq.tags) /\ Len(tags) > 50
        THEN Reject("Bad request: tags can have at most 50 items.")
        ELSE IF CsvTruthy(rq.sms_status) /\ NotAllowed(smsStatus, ALLOWED_SMS_STATUS) # <<>>
        THEN Reject("Bad request: invalid sms_status \""
                    \o Head(NotAllowed(smsStatus, ALLOWED_SMS_STATUS)) \o "\".")
        ELSE Call([method |-> "GET", path |-> "/contacts", query |-> q, body |-> JsNull])

(* looksUuid(v): the UUID pattern, case-insensitive, on the trimmed text. *)
looksUuid(v) ==
    Trim(v) \in {"3f2504e0-4f89-11d3-9a0c-0305e82c3301",
                 "3F2504E0-4F89-11D3-9A0C-0305E82C3301"}

(* encodeURIComponent(id) on the modelled ids. *)
encodeURIComponent(id) ==
    IF id = " 3f2504e0-4f89-11d3-9a0c-0305e82c3301 "
    THEN "%203f2504e0-4f89-11d3-9a0c-0305e82c3301%20"
    ELSE id

(* GET /api/contacts/[id], route.ts lines 13-70. *)
GetHandler(rq) ==
    LET values == parseCsv(rq.include)
    IN  IF ~looksUuid(rq.id)
        THEN Reject("Bad request: contact_id must be a UUID.")
        ELSE IF rq.include # NullCsv /\ values = <<>>
        THEN Reject("Bad request: include cannot be empty. Example: include=phone_numbers,street_addresses")
        ELSE IF rq.include # NullCsv /\ NotAllowed(values, ALLOWED_INCLUDE) # <<>>
        THEN Reject("Bad request: invalid include \""
                    \o Head(NotAllowed(values, ALLOWED_INCLUDE)) \o "\".")
        ELSE Call([method |-> Absent,
                   path |-> "/contacts/" \o encodeURIComponent(rq.id),
                   query |-> IF rq.include # NullCsv
                             THEN {<<"include", Join(values)>>} ELSE {},
                   body |-> JsNull])

(***************************************************************************)
(* POST /api/contacts (README.md lines 977-1181).  The JSON body is a       *)
(* function from property paths to values; of an array only its length is   *)
(* kept (its items are not blank).                                          *)
(***************************************************************************)
Undef == [type |-> "undefined", str |-> "", n |-> 0]
StrV(s) == [type |-> "string", str |-> s, n |-> 0]
NumV(n) == [type |-> "number", str |-> "", n |-> n]
NaNV == [type |-> "number", str |-> "NaN", n |-> 0]
ArrV(len) == [type |-> "array", str |-> "", n |-> len]
ObjV == [type |-> "object", str |-> "", n |-> 0]

BodyPaths ==
    {"create_source", "first_name", "last_name", "company_name", "job_title",
     "email_address", "email_address.address", "email_address.permission_to_send",
     "email", "permission_to_send", "list_memberships", "taggings", "phone_numbers",
     "street_addresses", "notes", "custom_fields", "sms_channel_consents",
     "sms_full_address", "sms_channel", "sms_channel.sms_address",
     "sms_channel.sms_channel_consents", "birthday_month", "birthday_day",
     "anniversary"}

(* The body with the given properties, every other one undefined. *)
Body(props) ==
    [path \in BodyPaths |->
        IF \E pr \in props : pr[1] = path
        THEN (CHOOSE pr \in props : pr[1] = path)[2]
        ELSE Undef]

(* !value *)
Falsy(v) ==
    \/ v.type = "undefined"
    \/ v.type = "string" /\ v.str = ""
    \/ v.type = "number" /\ (v = NaNV \/ v.n = 0)

(* value.split(",") on the modelled strings. *)
SplitComma(text) ==
    CASE text = "list-1,list-2," -> <<"list-1", "list-2", "">>
      [] text = "tag-1" -> <<"tag-1">>
      [] OTHER -> <<text>>

(* parseCsvUuids(value): the array of the trimmed, non-empty items. *)
parseCsvUuids(value) ==
    IF Falsy(value) THEN ArrV(0)
    ELSE IF value.type = "array" THEN value
    ELSE IF value.type # "string" THEN ArrV(0)
    ELSE ArrV(Len(parseCsv(SplitComma(value.str))))

(* JSON.parse(trimmed) on the modelled strings: the array, or not an array  *)
(* or not JSON (Undef).                                                     *)
JsonParseArray(text) ==
    CASE text = "[]" -> ArrV(0)
      [] text = "[{\"phone_number\":\"555-0100\"}]" -> ArrV(1)
      [] text = "[{\"consent_type\":\"promotional_sms\"}]" -> ArrV(1)
      [] OTHER -> Undef

(* parseJsonArray(value) *)
parseJsonArray(value) ==
    IF Falsy(value) THEN ArrV(0)
    ELSE IF value.type = "array" THEN value
    ELSE IF value.type # "string" THEN ArrV(0)
    ELSE IF Trim(value.str) = "" THEN ArrV(0)
    ELSE IF JsonParseArray(Trim(value.str)).type = "array"
    THEN JsonParseArray(Trim(value.str))
    ELSE ArrV(0)

(* value.slice(0, maxLen) on the modelled strings. *)
LongName == "Wolfeschlegelsteinhausenbergerdorff-Zeppelinstrasse"
Slice(text, maxLen) ==
    IF text = LongName /\ maxLen = 50
    THEN "Wolfeschlegelsteinhausenbergerdorff-Zeppelinstrass"
    ELSE text

(* truncateStr(value, maxLen) *)
truncateStr(value, maxLen) ==
    IF value.type # "string" THEN ""
    ELSE IF Len(Trim(value.str)) > maxLen THEN Slice(Trim(value.str), maxLen)
    ELSE Trim(value.str)

(* typeof a === "string" ? a.trim() : typeof b === "string" ? b.trim() ... : "" *)
RECURSIVE FirstString(_, _)
FirstString(body, paths) ==
    IF paths = <<>> THEN ""
    ELSE IF body[Head(paths)].type = "string" THEN Trim(body[Head(paths)].str)
    ELSE FirstString(body, Tail(paths))

(* birthday_month, birthday_day: the number, parseInt of a non-blank        *)
(* string, or undefined.                                                    *)
BirthdayPart(v) ==
    IF v.type = "number" THEN v
    ELSE IF v.type = "string" /\ Trim(v.str) # ""
    THEN (IF parseInt(v.str).nan THEN NaNV ELSE NumV(parseInt(v.str).n))
    ELSE Undef

(* s.startsWith('+') on the modelled strings. *)
StartsWithPlus(text) == text \in {"+15550100"}

(* x || undefined, x.length ? x : undefined *)
StrOrUndef(text) == IF text = "" THEN Undef ELSE StrV(text)
ArrOrUndef(arr) == IF arr.n = 0 THEN Undef ELSE arr

(* The properties of the payload, and of its two nested objects. *)
PayloadPaths ==
    UNION {{JsonMembersOf(o)[i] : i \in 1..Len(JsonMembersOf(o))} :
              o \in {"", "email_address", "sms_channel"}}

(* The locals of POST, computed from the body (lines 981-1069). *)
CreateLocals(body) ==
    LET email == FirstString(body, <<"email_address.address", "email_address", "email">>)
        permission ==
            FirstString(body, <<"permission_to_send", "email_address.permission_to_send">>)
        smsChannelConsents == parseJsonArray(body["sms_channel_consents"])
        smsFullAddress ==
            FirstString(body, <<"sms_full_address", "sms_channel.sms_address">>)
        finalSmsChannelConsents ==
            IF smsChannelConsents.n > 0 THEN smsChannelConsents
            ELSE parseJsonArray(body["sms_channel.sms_channel_consents"])
    IN  [email |-> email,
         permission |-> permission,
         listMemberships |-> parseCsvUuids(body["list_memberships"]),
         taggings |-> parseCsvUuids(body["taggings"]),
         phoneNumbers |-> parseJsonArray(body["phone_numbers"]),
         streetAddresses |-> parseJsonArray(body["street_addresses"]),
         notes |-> parseJsonArray(body["notes"]),
         customFields |-> parseJsonArray(body["custom_fields"]),
         smsFullAddress |-> smsFullAddress,
         finalSmsChannelConsents |-> finalSmsChannelConsents,
         birthdayMonth |-> BirthdayPart(body["birthday_month"]),
         birthdayDay |-> BirthdayPart(body["birthday_day"]),
         anniversary |->
            IF body["anniversary"].type = "string" /\ Trim(body["anniversary"].str) # ""
            THEN StrV(Trim(body["anniversary"].str)) ELSE Undef,
         firstName |-> truncateStr(body["first_name"], 50),
         lastName |-> truncateStr(body["last_name"], 50),
         jobTitle |-> truncateStr(body["job_title"], 50),
         companyName |-> truncateStr(body["company_name"], 50),
         hasSmsChannel |-> smsFullAddress # "" \/ finalSmsChannelConsents.n > 0]

(* The payload built at lines 1118-1166; a key whose value is undefined is  *)
(* deleted.                                                                 *)
CreatePayload(body) ==
    LET l == CreateLocals(body)
        top == [create_source |->
                    IF body["create_source"].type = "string"
                    THEN body["create_source"] ELSE StrV("Account"),
                first_name |-> StrOrUndef(l.firstName),
                last_name |-> StrOrUndef(l.lastName),
                company_name |-> StrOrUndef(l.companyName),
                job_title |-> StrOrUndef(l.jobTitle),
                birthday_month |-> l.birthdayMonth,
                birthday_day |-> l.birthdayDay,
                anniversary |-> l.anniversary,
                phone_numbers |-> ArrOrUndef(l.phoneNumbers),
                street_addresses |-> ArrOrUndef(l.streetAddresses),
                notes |-> ArrOrUndef(l.notes),
                custom_fields |-> ArrOrUndef(l.customFields),
                list_memberships |-> ArrOrUndef(l.listMemberships),
                taggings |-> ArrOrUndef(l.taggings),
                email_address |-> IF l.email # "" THEN ObjV ELSE Undef,
                sms_channel |-> IF l.hasSmsChannel THEN ObjV ELSE Undef]
    IN  [path \in PayloadPaths |->
            CASE path = "email_address.address" ->
                    IF l.email # "" THEN StrV(l.email) ELSE Undef
              [] path = "email_address.permission_to_send" ->
                    IF l.email # "" THEN StrV(l.permission) ELSE Undef
              [] path = "sms_channel.full_sms_address" ->
                    IF l.hasSmsChannel /\ l.smsFullAddress # ""
                    THEN (IF StartsWithPlus(l.smsFullAddress) THEN StrV(l.smsFullAddress)
                          ELSE StrV("+" \o l.smsFullAddress))
                    ELSE Undef
              [] path = "sms_channel.sms_channel_consents" ->
                    IF l.hasSmsChannel THEN ArrOrUndef(l.finalSmsChannelConsents)
                    ELSE Undef
              [] OTHER -> top[path]]

(* The SyntaxError of req.json() for a body that is not JSON. *)
BodySyntaxError ==
    MkError("Unexpected token 'h', \"hello\" is not valid JSON", NoStatus, JsNull)

(* Mutant: the check for an identifying field is missing. *)
LacksIdentityNever(l) == FALSE

(* !firstName && !lastName && !email && !hasSmsChannel *)
LacksIdentity(l) ==
    l.firstName = "" /\ l.lastName = "" /\ l.email = "" /\ ~l.hasSmsChannel

(* POST /api/contacts: the checks in the order of the code. *)
CreateHandler(rq) ==
    LET l == CreateLocals(rq.body)
    IN  IF ~rq.json THEN Throw(BodySyntaxError)
        ELSE IF l.email # "" /\ l.permission = ""
        THEN Reject("Bad request: permission_to_send is required when email_address is provided.")
        ELSE IF l.smsFullAddress # "" /\ l.finalSmsChannelConsents.n = 0
        THEN Reject("Bad request: sms_channel_consents must be a non-empty JSON array when sms_full_address is provided.")
        ELSE IF LacksIdentity(l)
        THEN Reject("Bad request: At least one of first_name, last_name, email_address, or sms_channel is required.")
        ELSE IF l.phoneNumbers.n > 3
        THEN Reject("Bad request: phone_numbers can have at most 3 items.")
        ELSE IF l.streetAddresses.n > 3
        THEN Reject("Bad request: street_addresses can have at most 3 items.")
        ELSE IF l.customFields.n > 25
        THEN Reject("Bad request: custom_fields can have at most 25 items.")
        ELSE IF l.notes.n > 150
        THEN Reject("Bad request: notes can have at most 150 items.")
        ELSE IF l.listMemberships.n > 50
        THEN Reject("Bad request: list_memberships can have at most 50 items.")
        ELSE IF l.taggings.n > 50
        THEN Reject("Bad request: taggings can have at most 50 items.")
        ELSE Call([method |-> "POST", path |-> "/contacts", query |-> {},
                   body |-> CreatePayload(rq.body)])

(***************************************************************************)
(* The requests the handlers are given.                                     *)
(***************************************************************************)
ListRequest ==
    [handler |-> "list", limit |-> NullParam, include_count |-> NullParam,
     include |-> NullCsv, status |-> NullCsv, email |-> NullParam, lists |-> NullCsv,
     segment_id |-> NullParam, tags |-> NullCsv,
     dates |-> [i \in 1..Len(DateParams) |-> NullParam], sms_status |-> NullCsv]

(* n ids, comma-separated. *)
Ids(n) == [i \in 1..n |-> "id-" \o ToString(i)]

ListRequests ==
    {[ListRequest EXCEPT !.limit = v] :
        v \in {NullParam, "1", "500", "0", "501", "-3", "abc", "", "10abc", "1.5"}}
    \cup {[ListRequest EXCEPT !.limit = "25", !.include_count = "TRUE",
                             !.include = <<"phone_numbers", " notes", " ">>,
                             !.status = <<"active", "deleted">>,
                             !.email = " ada@example.com ",
                             !.lists = Ids(25), !.tags = Ids(2),
                             !.dates = [@ EXCEPT ![1] = "2024-01-01T00:00:00Z"],
                             !.sms_status = <<"explicit">>],
          [ListRequest EXCEPT !.include_count = "yes"],
          [ListRequest EXCEPT !.include = <<"orders">>],
          [ListRequest EXCEPT !.status = <<"active", "gone">>],
          [ListRequest EXCEPT !.lists = Ids(26)],
          [ListRequest EXCEPT !.tags = Ids(51)],
          [ListRequest EXCEPT !.sms_status = <<"implicit">>]}

GetRequests ==
    {[handler |-> "get", id |-> "3f2504e0-4f89-11d3-9a0c-0305e82c3301", include |-> NullCsv],
     [handler |-> "get", id |-> "3f2504e0-4f89-11d3-9a0c-0305e82c3301", include |-> <<"phone_numbers", " notes">>],
     [handler |-> "get", id |-> " 3f2504e0-4f89-11d3-9a0c-0305e82c3301 ",
      include |-> NullCsv],
     [handler |-> "get", id |-> "42", include |-> NullCsv],
     [handler |-> "get", id |-> "3f2504e0-4f89-11d3-9a0c-0305e82c3301", include |-> <<"">>],
     [handler |-> "get", id |-> "3f2504e0-4f89-11d3-9a0c-0305e82c3301", include |-> <<"orders">>]}

Bodies ==
    {Body({}),
     Body({<<"first_name", StrV(" Ada ")>>}),
     Body({<<"first_name", StrV(" ")>>}),
     Body({<<"email_address", ObjV>>,
           <<"email_address.address", StrV(" ada@example.com ")>>,
           <<"email_address.permission_to_send", StrV(" explicit ")>>}),
     Body({<<"email_address", StrV("ada@example.com")>>,
           <<"permission_to_send", StrV("implicit")>>}),
     Body({<<"email", StrV("ada@example.com")>>}),
     Body({<<"email", StrV("ada@example.com")>>, <<"permission_to_send", StrV(" ")>>}),
     Body({<<"first_name", StrV(" Ada ")>>, <<"birthday_month", NumV(12)>>, <<"birthday_day", NumV(25)>>}),
     Body({<<"first_name", StrV(" Ada ")>>, <<"birthday_month", StrV("12")>>}),
     Body({<<"first_name", StrV(" Ada ")>>, <<"birthday_day", NumV(25)>>}),
     Body({<<"sms_full_address", StrV("15550100")>>,
           <<"sms_channel_consents", StrV("[{\"consent_type\":\"promotional_sms\"}]")>>}),
     Body({<<"sms_full_address", StrV("+15550100")>>,
           <<"sms_channel_consents", StrV("[]")>>}),
     Body({<<"sms_channel", ObjV>>, <<"sms_channel.sms_channel_consents", ArrV(1)>>}),
     Body({<<"last_name", StrV(LongName)>>, <<"create_source", StrV("Contact")>>,
           <<"list_memberships", StrV("list-1,list-2,")>>,
           <<"phone_numbers", StrV("[{\"phone_number\":\"555-0100\"}]")>>,
           <<"anniversary", StrV("2020-06-01")>>}),
     Body({<<"first_name", StrV(" Ada ")>>, <<"phone_numbers", ArrV(4)>>}),
     Body({<<"first_name", StrV(" Ada ")>>, <<"street_addresses", ArrV(4)>>}),
     Body({<<"first_name", StrV(" Ada ")>>, <<"custom_fields", ArrV(26)>>}),
     Body({<<"first_name", StrV(" Ada ")>>, <<"notes", ArrV(151)>>}),
     Body({<<"first_name", StrV(" Ada ")>>, <<"list_memberships", ArrV(51)>>}),
     Body({<<"first_name", StrV(" Ada ")>>, <<"taggings", ArrV(51)>>})}

CreateRequests ==
    {[handler |-> "create", json |-> TRUE, body |-> b] : b \in Bodies}
    \cup {[handler |-> "create", json |-> FALSE, body |-> Body({})]}

(* The request call t comes from: odd calls are made by the GET handlers,   *)
(* even calls by the POST handler (as in OptsFor).                          *)
RequestsFor(t) ==
    IF t % 2 = 1 THEN ListRequests \cup GetRequests ELSE CreateRequests

(* The handler the request is routed to. *)
Handler(rq) ==
    CASE rq.handler = "list" -> ListHandler(rq)
      [] rq.handler = "get" -> GetHandler(rq)
      [] rq.handler = "create" -> CreateHandler(rq)

(* Mutant: the handler sends a request upstream before it validates. *)
HandleCallsFirst(t, rq) ==
    /\ request' = [request EXCEPT ![t] = rq]
    /\ IF Handler(rq).kind = "call"
       THEN StartCall(t, Handler(rq).opts)
       ELSE /\ mq = <<>>
            /\ pc[t] = "idle"
            /\ IF t = 1 THEN TRUE ELSE pc[t - 1] # "idle"
            /\ pc' = [pc EXCEPT ![t] = "returned"]
            /\ response' = [response EXCEPT ![t] = Handler(rq).response]
            /\ mq' = Append(mq, <<"respond", t>>)
            /\ sent' = [sent EXCEPT ![t] =
                          <<BuildRequest(env.CC_BASE_URL, accessTokenCache, NoOpts)>>]
            /\ UNCHANGED <<env, accessTokenCache, refreshInFlight, refresh, waiters, opts,
                           res, caught, awaiting, result, tokenLog, when401,
                           slotAtCatch, burst, pageVars>>

(* A handler is given a request: it answers it itself, or it goes on to     *)
(* call ccFetchJson, which runs up to its first await.                      *)
Handle(t, rq) ==
    /\ request' = [request EXCEPT ![t] = rq]
    /\ IF Handler(rq).kind = "call"
       THEN StartCall(t, Handler(rq).opts)
       ELSE /\ mq = <<>>
            /\ pc[t] = "idle"
            /\ IF t = 1 THEN TRUE ELSE pc[t - 1] # "idle"
            /\ pc' = [pc EXCEPT ![t] = "returned"]
            /\ response' = [response EXCEPT ![t] = Handler(rq).response]
            /\ mq' = Append(mq, <<"respond", t>>)
            /\ UNCHANGED <<env, accessTokenCache, refreshInFlight, refresh, waiters, opts,
                           res, caught, awaiting, result, sent, tokenLog, when401,
                           slotAtCatch, burst, pageVars>>

(* The answers of the contact service and of the token endpoint while the   *)
(* handlers are examined: one of each kind the module tells apart.          *)
HandlerStatuses == {200, 401}
HandlerTokenStatuses == {200, 400}

HandlerNext ==
    \/ \E t \in Calls : \E rq \in RequestsFor(t) : Handle(t, rq)
    \/ \E t \in Calls : \E status \in HandlerStatuses : DataFetchSettle(t, status)
    \/ \E t \in Calls : DataFetchFail(t)
    \/ \E t \in Calls : \E text \in (IF ResOk(res[t].status) THEN {ContactsText} ELSE {EmptyText}) :
            DataTextSettle(t, text)
    \/ \E t \in Calls : Catch(t)
    \/ \E p \in Calls, status \in HandlerTokenStatuses : RefreshFetchSettle(p, status)
    \/ \E p \in Calls : RefreshFetchFail(p)
    \/ \E p \in Calls : \E text \in (IF ResOk(refresh[p].res.status) THEN {Token2Text} ELSE {GrantText}) :
            RefreshTextSettle(p, text)
    \/ \E t \in Calls : Finally(t)
    \/ \E t \in Calls : Resume(t)
    \/ \E t \in Calls : Deliver(t)
    \/ \E t \in Calls : Respond(t)

HandlerSpec == Init /\ [][HandlerNext]_vars

Next ==
    \/ \E t \in Calls : \E o \in OptsFor(t) : StartCall(t, o) /\ UNCHANGED request
    \/ \E t \in Calls : \E status \in DataStatusesFor(Len(sent[t])) : DataFetchSettle(t, status)
    \/ \E t \in Calls : DataFetchFail(t)
    \/ \E t \in Calls : \E text \in DataTextsFor(res[t].status) : DataTextSettle(t, text)
    \/ \E t \in Calls : Catch(t)
    \/ \E p \in Calls, status \in TokenStatuses : RefreshFetchSettle(p, status)
    \/ \E p \in Calls : RefreshFetchFail(p)
    \/ \E p \in Calls : \E text \in TokenTextsFor(refresh[p].res.status) :
            RefreshTextSettle(p, text)
    \/ \E t \in Calls : Finally(t)
    \/ \E t \in Calls : Resume(t)
    \/ \E t \in Calls : Deliver(t)
    \/ \E t \in Calls : Respond(t)

Spec == Init /\ [][Next]_vars

(* The same program, started with any configuration. *)
ConfigSpec == ConfigInit /\ [][Next]_vars

(* The event loop runs every queued microtask: a reaction that is at the    *)
(* head of the queue is run.                                                *)
FairSpec == Spec /\ \A t \in Calls : WF_vars(Finally(t))

(* The network calls of a data attempt of call t settle: fetch (line 63)    *)
(* and res.text() (line 74).                                                *)
DataSettles(t) ==
    \/ \E status \in DataStatusesFor(Len(sent[t])) : DataFetchSettle(t, status)
    \/ DataFetchFail(t)
    \/ \E text \in DataTextsFor(res[t].status) : DataTextSettle(t, text)

(* The network calls of the refresh p settle: fetch (line 98) and           *)
(* res.text() (line 112).                                                   *)
TokenSettles(p) ==
    \/ \E status \in TokenStatuses : RefreshFetchSettle(p, status)
    \/ RefreshFetchFail(p)
    \/ \E text \in TokenTextsFor(refresh[p].res.status) : RefreshTextSettle(p, text)

(* The continuations of call t that the event loop runs as microtasks.      *)
Microtask(t) == Catch(t) \/ Finally(t) \/ Resume(t) \/ Deliver(t) \/ Respond(t)

(* Data requests settle and microtasks run; the token endpoint may leave a  *)
(* refresh unanswered for ever.                                             *)
HangSpec ==
    Spec /\ \A t \in Calls : WF_vars(DataSettles(t)) /\ WF_vars(Microtask(t))

(* Every network call settles and microtasks run.                           *)
LiveSpec == HangSpec /\ \A p \in Calls : WF_vars(TokenSettles(p))

(***************************************************************************)
(* The contacts page (README.md, app/contacts/page.tsx): the detail modal.  *)
(* openModal runs up to its first await; the rest of it runs when its       *)
(* fetch, and then res.json(), settle.  React applies the state updates of  *)
(* one continuation together.                                               *)
(***************************************************************************)
(* What GET /api/contacts/[id] answers the page with. *)
PageStatuses == {200, 404, 500}
(* The bodies res.json() yields: the contact asked for, or an object with   *)
(* or without an error property.                                            *)
PageBodiesFor(id, status) ==
    IF ResOk(status)
    THEN {[contact |-> Contact(id), error |-> Absent]}
    ELSE {[contact |-> NoContact, error |-> "Contact not found"],
          [contact |-> NoContact, error |-> Absent]}

(* `Failed to load contact (${res.status})` *)
FailedToLoad(status) ==
    CASE status = 404 -> "Failed to load contact (404)"
      [] status = 500 -> "Failed to load contact (500)"
      [] OTHER -> "Failed to load contact"

(* openModal(contactId), lines 517-529: the five updates and the fetch. *)
openModal(k, contactId) ==
    /\ loads[k].stage = "none"
    /\ \A j \in Opens : j < k => loads[j].stage # "none"
    /\ open' = TRUE
    /\ selectedId' = contactId
    /\ selected' = NoContact
    /\ modalError' = Absent
    /\ modalLoading' = TRUE
    /\ loads' = [loads EXCEPT ![k] = [contactId |-> contactId, stage |-> "fetch",
                                      status |-> NoStatus]]
    /\ UNCHANGED serverVars

(* closeModal(), reached from the rendered modal and the Escape handler. *)
closeModal ==
    /\ open
    /\ open' = FALSE
    /\ selectedId' = Absent
    /\ selected' = NoContact
    /\ modalError' = Absent
    /\ modalLoading' = FALSE
    /\ UNCHANGED <<loads, serverVars>>

(* await fetch(...) of invocation k is fulfilled with a response. *)
ModalFetchSettle(k, status) ==
    /\ loads[k].stage = "fetch"
    /\ loads' = [loads EXCEPT ![k].stage = "json", ![k].status = status]
    /\ UNCHANGED <<open, selectedId, selected, modalLoading, modalError, serverVars>>

(* await fetch(...) or await res.json() of invocation k is rejected: the    *)
(* catch block and the finally block run.                                   *)
ModalFetchFail(k) ==
    /\ loads[k].stage \in {"fetch", "json"}
    /\ loads' = [loads EXCEPT ![k].stage = "done"]
    /\ modalError' = IF loads[k].stage = "fetch" THEN "Failed to fetch"
                     ELSE "Unexpected token < in JSON"
    /\ modalLoading' = FALSE
    /\ UNCHANGED <<open, selectedId, selected, serverVars>>

(* await res.json() of invocation k is fulfilled: lines 531-541. *)
ModalJsonSettle(k, data) ==
    /\ loads[k].stage = "json"
    /\ loads' = [loads EXCEPT ![k].stage = "done"]
    /\ IF ~ResOk(loads[k].status)
       THEN /\ modalError' = IF data.error # Absent THEN data.error
                             ELSE FailedToLoad(loads[k].status)
            /\ UNCHANGED selected
       ELSE /\ selected' = data.contact
            /\ UNCHANGED modalError
    /\ modalLoading' = FALSE
    /\ UNCHANGED <<open, selectedId, serverVars>>

PageNext ==
    \/ \E k \in Opens, contactId \in ContactIds : openModal(k, contactId)
    \/ closeModal
    \/ \E k \in Opens, status \in PageStatuses : ModalFetchSettle(k, status)
    \/ \E k \in Opens : ModalFetchFail(k)
    \/ \E k \in Opens : \E data \in PageBodiesFor(loads[k].contactId, loads[k].status) :
            ModalJsonSettle(k, data)

PageSpec == Init /\ [][PageNext]_vars


(***************************************************************************)
(* Properties.                                                              *)
(***************************************************************************)
(* The calls that sent a POST to the token endpoint, and how many POSTs     *)
(* the calls of S sent.                                                     *)
PostsBy(S) == Cardinality({i \in 1..Len(tokenLog) : tokenLog[i].by \in S})
Retried(t) == Len(sent[t]) = 2
Handled401(t) == slotAtCatch[t] # <<>>

(* C1: in every reachable state at most one POST to the token endpoint is   *)
(* in flight (issued, and its promise not yet settled).                     *)
C1_AtMostOneRefreshInFlight == Cardinality({p \in Calls : InFlight(p)}) <= 1

(* A refresh is in flight and a second call has joined it. *)
C1_Witness == \E p \in Calls : InFlight(p) /\ Len(waiters[p]) >= 2

(* C2: the calls whose first attempt received its 401 before any refresh    *)
(* had settled make exactly one POST to the token endpoint between them,    *)
(* and all of them send their retry with the token that refresh issued.     *)
Early == {t \in Calls : when401[t] = "early"}

C2_OneRefreshSameToken ==
    /\ PostsBy(Early) <= 1
    /\ (\E t \in Early : Handled401(t)) => PostsBy(Early) = 1
    /\ \A t \in Early, u \in Early :
          Retried(t) /\ Retried(u) => sent[t][2].token = sent[u][2].token
    /\ \A t \in Early :
          Retried(t) =>
             /\ refresh[awaiting[t]].state = "fulfilled"
             /\ sent[t][2].token = refresh[awaiting[t]].value
             /\ sent[t][2].token = IssuedToken(refresh[awaiting[t]].res.text)

(* Two calls saw their 401 before any refresh settled and both have retried. *)
C2_Witness ==
    /\ Cardinality(Early) >= 2
    /\ \A t \in Early : Retried(t)
    /\ Len(tokenLog) = 1


(* C3, as claimed: a burst of calls in flight together with the same token, *)
(* each answered 401, makes exactly one POST to the token endpoint,         *)
(* whenever the 401s arrive.                                                *)
BurstAnswered401 ==
    /\ Cardinality(burst) >= 2
    /\ \A t \in burst : Handled401(t) /\ sent[t][1].token = FullEnv.CC_ACCESS_TOKEN

C3_AsClaimed == BurstAnswered401 => PostsBy(burst) = 1

(* C3, amended: a call of the burst sends a POST to the token endpoint      *)
(* exactly when the pending-refresh slot is empty as its 401 is handled, so *)
(* the burst makes between one POST and one per call; it makes exactly one  *)
(* when every 401 arrives before the first refresh has settled.             *)
C3_OnePostPerEmptySlot ==
    /\ \A t \in burst :
          Handled401(t) =>
             PostsBy({t}) = IF slotAtCatch[t][1] = "empty" THEN 1 ELSE 0
    /\ BurstAnswered401 =>
          /\ PostsBy(burst) >= 1
          /\ PostsBy(burst) <= Cardinality(burst)
          /\ (\A t \in burst : when401[t] = "early") => PostsBy(burst) = 1

(* Both calls of a burst got their 401, the second after the first refresh  *)
(* was cleared: two POSTs.                                                  *)
C3_Witness == BurstAnswered401 /\ PostsBy(burst) = 2

(* C4: a call that enters refreshAccessToken while another call's refresh   *)
(* is outstanding sends no POST of its own, waits for that refresh, and     *)
(* gets its outcome: it retries with the same token, or fails with the same *)
(* error, as the call that started the refresh.                             *)
C4_JoinerGetsCreatorsOutcome ==
    \A b \in Calls :
       (Handled401(b) /\ slotAtCatch[b][1] = "occupied") =>
          LET a == awaiting[b]
          IN  /\ a # NoPromise /\ a # b
              /\ PostsBy({b}) = 0
              /\ PostsBy({a}) = 1
              /\ ~Settled(a) => pc[b] = "awaitRefresh"
              /\ Retried(b) =>
                    /\ refresh[a].state = "fulfilled"
                    /\ sent[b][2].token = refresh[a].value
                    /\ Retried(a) /\ sent[a][2].token = sent[b][2].token
              /\ (pc[b] = "failed" /\ ~Retried(b)) =>
                    /\ refresh[a].state = "rejected"
                    /\ result[b] = Thrown(refresh[a].error)
                    /\ ~Retried(a)
                    /\ pc[a] = "failed" => result[a] = result[b]

(* A joiner and the creator have both failed with the token endpoint's 400. *)
C4_Witness ==
    \E a \in Calls, b \in Calls :
       /\ a # b /\ awaiting[b] = a /\ awaiting[a] = a
       /\ pc[a] = "failed" /\ pc[b] = "failed"
       /\ result[a] = result[b]
       /\ result[b].error.status = 400

(* C5: a call sends at most two data requests and enters refreshAccessToken *)
(* at most once; when its retry is answered 401 it fails with that 401.     *)
C5_SingleRetry ==
    \A t \in Calls :
       /\ Len(sent[t]) <= 2
       /\ Len(slotAtCatch[t]) <= 1
       /\ PostsBy({t}) <= 1
       /\ (Retried(t) /\ pc[t] # "text2" /\ res[t].status = Unauthorized) =>
             /\ pc[t] = "failed"
             /\ result[t].kind = "error"
             /\ result[t].error.status = Unauthorized

(* A retry was answered 401 and the call has failed. *)
C5_Witness ==
    \E t \in Calls :
       Retried(t) /\ pc[t] = "failed" /\ res[t].status = Unauthorized


(* The body of a response as an error carries it: the parsed JSON value, or *)
(* the raw text when there is none.                                         *)
BodyOf(text) ==
    IF text \in Parseable /\ JSONparse(text) # JsNull
    THEN JSONparse(text) ELSE JsString(text)

NonAuthFailure(status) ==
    status # NoStatus /\ ~ResOk(status) /\ status # Unauthorized

(* C6: a call whose first attempt is answered with a non-success status     *)
(* other than 401 fails at once with that status and the response body; it  *)
(* enters no refresh and sends no retry, and the stored access token and    *)
(* the pending-refresh slot are left as they are.                           *)
C6_NonAuthErrorsTerminal ==
    [][\A t \in Calls :
          /\ (pc[t] = "text1" /\ pc'[t] # "text1" /\ NonAuthFailure(res[t].status)) =>
                /\ pc'[t] = "catch"
                /\ caught'[t].status = res[t].status
                /\ caught'[t].details = BodyOf(res'[t].text)
                /\ UNCHANGED <<accessTokenCache, refreshInFlight, tokenLog, sent,
                               slotAtCatch, awaiting>>
          /\ (pc[t] = "catch" /\ pc'[t] # "catch" /\ NonAuthFailure(caught[t].status)) =>
                /\ pc'[t] = "failed"
                /\ result'[t] = Thrown(caught[t])
                /\ UNCHANGED <<accessTokenCache, refreshInFlight, tokenLog, sent,
                               slotAtCatch, awaiting>>
          /\ (pc[t] = "failed" /\ pc'[t] # "failed") =>
                /\ pc'[t] = "returned"
                /\ UNCHANGED <<accessTokenCache, refreshInFlight, tokenLog, sent,
                               slotAtCatch, awaiting>>
      ]_vars

(* A call has failed with the 503 of its first attempt while the refresh of *)
(* another call is pending.                                                 *)
C6_Witness ==
    \E t \in Calls :
       /\ pc[t] = "failed" /\ ~Retried(t) /\ slotAtCatch[t] = <<>>
       /\ res[t].status = 503 /\ result[t].error.status = 503
       /\ result[t].error.details = JsString(HtmlText)
       /\ refreshInFlight # NoPromise /\ refreshInFlight # t

(* C7: when the token endpoint answers the refresh with a non-success       *)
(* status, the stored access token is what it was when the refresh began,   *)
(* and the call that awaited the refresh fails, without a retry, with an    *)
(* error carrying the token endpoint's status and body.                     *)
RefreshRefused(p) ==
    /\ refresh[p].state = "rejected"
    /\ refresh[p].res.status # NoStatus
    /\ ~ResOk(refresh[p].res.status)

C7_RefreshFailureSurfaces ==
    /\ \A p \in Calls :
          (RefreshRefused(p) /\ refreshInFlight = p) =>
             accessTokenCache = refresh[p].cacheAtStart
    /\ \A t \in Calls :
          (awaiting[t] # NoPromise /\ RefreshRefused(awaiting[t])
             /\ pc[t] \notin {"awaitRefresh", "returned"}) =>
             /\ pc[t] = "failed"
             /\ ~Retried(t)
             /\ result[t].kind = "error"
             /\ result[t].error.status = refresh[awaiting[t]].res.status
             /\ result[t].error.details = BodyOf(refresh[awaiting[t]].res.text)
             /\ accessTokenCache = refresh[awaiting[t]].cacheAtStart

(* The call that started the refresh has failed with invalid_grant (400).   *)
C7_Witness ==
    \E t \in Calls :
       /\ pc[t] = "failed" /\ awaiting[t] = t
       /\ refresh[t].res = [status |-> 400, text |-> GrantText]
       /\ result[t].error.status = 400
       /\ result[t].error.details = JSONparse(GrantText)
       /\ accessTokenCache = FullEnv.CC_ACCESS_TOKEN


(* The data ccFetchJson returns for a success response with body `text`.    *)
DataOf(text) ==
    IF text = EmptyText \/ text \notin Parseable \/ JSONparse(text) = JsNull
    THEN EmptyObject ELSE JSONparse(text)

(* The access token of the latest refresh the token endpoint has granted.   *)
Granted == {i \in 1..Len(tokenLog) : refresh[tokenLog[i].by].state = "fulfilled"}
LatestGranted ==
    LET i == CHOOSE i \in Granted : \A j \in Granted : j <= i
    IN  IssuedToken(refresh[tokenLog[i].by].res.text)

(* C8: once a refresh has succeeded with token T2, a call that retries      *)
(* after it sends T2 and returns the status and body of the retry's         *)
(* response, and every call started from then on sends, on its first        *)
(* attempt, the token of the latest successful refresh.                     *)
C8_NewTokenUsed ==
    [][\A t \in Calls :
          /\ (pc[t] = "idle" /\ pc'[t] # "idle" /\ Granted # {}) =>
                /\ pc'[t] = "fetch1"
                /\ sent'[t][1].token = LatestGranted
                /\ sent'[t][1].authorization = "Bearer " \o LatestGranted
          /\ (pc[t] = "awaitRefresh" /\ pc'[t] = "fetch2") =>
                sent'[t][2].token = IssuedToken(refresh[awaiting[t]].res.text)
          /\ (pc[t] = "text2" /\ pc'[t] = "done") =>
                /\ result'[t].kind = "ok"
                /\ result'[t].status = res[t].status
                /\ result'[t].data = DataOf(res'[t].text)
      ]_vars

(* One call has returned the 200 of its retry sent with T2, and a call      *)
(* started after the refresh has sent T2 on its first attempt.              *)
C8_Witness ==
    \E a \in Calls, t \in Calls :
       /\ pc[a] = "done" /\ Retried(a) /\ sent[a][2].token = "T2"
       /\ result[a].status = 200 /\ result[a].data = JSONparse(ContactsText)
       /\ pc[t] = "fetch1" /\ sent[t][1].token = "T2"

(* C9: a refresh promise that has settled, fulfilled or rejected, is        *)
(* eventually removed from the pending-refresh slot; and a call that enters *)
(* refreshAccessToken with the slot cleared after an earlier refresh sends  *)
(* a new POST to the token endpoint and awaits its own refresh.             *)
C9_SlotClearedThenFreshRefresh ==
    /\ \A p \in Calls : (Settled(p) /\ refreshInFlight = p) ~> (refreshInFlight # p)
    /\ [][\A t \in Calls :
             (/\ pc[t] = "catch" /\ pc'[t] # "catch"
              /\ caught[t].status = Unauthorized
              /\ refreshInFlight = NoPromise
              /\ \E p \in Calls : Settled(p)) =>
                /\ refreshInFlight' = t
                /\ awaiting'[t] = t
                /\ refresh'[t].state = "fetching"
                /\ tokenLog' = Append(tokenLog,
                      TokenRequest(t, env.CC_CLIENT_ID, env.CC_REFRESH_TOKEN))
         ]_vars

(* A second refresh is in flight after a first one settled and was cleared. *)
C9_Witness ==
    \E p \in Calls, q \in Calls :
       /\ p # q /\ Settled(p)
       /\ refreshInFlight = q /\ refresh[q].state = "fetching"
       /\ Len(tokenLog) = 2

(* C10, as claimed: a success response is returned with its status and its *)
(* parsed JSON body, and with an empty object when the body is empty or not *)
(* parseable.                                                               *)
C10_AsClaimed ==
    \A t \in Calls :
       pc[t] = "done" =>
          /\ result[t].kind = "ok"
          /\ result[t].status = res[t].status
          /\ result[t].data =
                IF res[t].text = EmptyText \/ res[t].text \notin Parseable
                THEN EmptyObject ELSE JSONparse(res[t].text)

(* C10, amended: a success response is returned with its status and its     *)
(* parsed JSON body, and with an empty object when the body is empty, not   *)
(* parseable, or the JSON value null.                                       *)
C10_SuccessPassThrough ==
    \A t \in Calls :
       pc[t] = "done" =>
          /\ result[t].kind = "ok"
          /\ ResOk(result[t].status)
          /\ result[t].status = res[t].status
          /\ result[t].data = DataOf(res[t].text)

(* A 200 with the body `null` has been returned with an empty object.       *)
C10_Witness ==
    \E t \in Calls :
       /\ pc[t] = "done" /\ res[t] = [status |-> 200, text |-> NullText]
       /\ result[t].status = 200 /\ result[t].data = EmptyObject


(* C11: a call returns a result only in the step that reads the body of a   *)
(* 2xx response to a data request of that same call, and the result is that *)
(* response's status and body; a call whose refresh was rejected, or whose   *)
(* retry failed, fails with that error and returns nothing.                 *)
C11_SuccessOnlyFromOwn2xx ==
    [][\A t \in Calls :
          /\ (pc[t] # "done" /\ pc'[t] = "done") =>
                /\ pc[t] \in {"text1", "text2"}
                /\ sent'[t] = sent[t] /\ sent[t] # <<>>
                /\ res[t].status \in 200..299
                /\ result'[t].kind = "ok"
                /\ result'[t].status = res[t].status
                /\ result'[t].data = DataOf(res'[t].text)
          /\ (pc[t] = "awaitRefresh" /\ pc'[t] # "awaitRefresh"
                /\ refresh[awaiting[t]].state = "rejected") =>
                /\ pc'[t] = "failed"
                /\ result'[t] = Thrown(refresh[awaiting[t]].error)
                /\ sent'[t] = sent[t]
          /\ (pc[t] = "fetch2" /\ pc'[t] \notin {"fetch2", "text2"}) =>
                /\ pc'[t] = "failed"
                /\ result'[t] = Thrown(NetworkError)
          /\ (pc[t] = "text2" /\ pc'[t] # "text2" /\ res[t].status \notin 200..299) =>
                /\ pc'[t] = "failed"
                /\ result'[t].kind = "error"
                /\ result'[t].error.status = res[t].status
                /\ result'[t].error.details = BodyOf(res'[t].text)
          /\ (pc[t] = "failed" /\ pc'[t] # "failed") =>
                /\ pc'[t] = "returned"
                /\ response'[t].body.kind = "error"
      ]_vars

(* A call whose first attempt got a 401 with a JSON body has failed with    *)
(* the 500 of its retry.                                                    *)
C11_Witness ==
    \E t \in Calls :
       /\ Retried(t) /\ pc[t] = "failed"
       /\ res[t].status = 500
       /\ result[t].error.status = 500

(* C12: the stored access token changes only in the step in which a refresh *)
(* reads a 2xx token response that carries an access_token, and it becomes  *)
(* that token; every other step leaves it as it is.                         *)
C12_TokenChangesOnlyOnRefresh ==
    [][accessTokenCache' # accessTokenCache =>
          \E p \in Calls :
             /\ refresh[p].state = "reading"
             /\ refresh'[p].state = "fulfilled"
             /\ refresh[p].res.status \in 200..299
             /\ IssuedToken(refresh'[p].res.text) # Absent
             /\ accessTokenCache' = IssuedToken(refresh'[p].res.text)
      ]_vars

(* A first refresh stored T2; since then a call was started with it, a      *)
(* second refresh was refused and the slot was cleared: the token is T2.    *)
C12_Witness ==
    /\ Len(tokenLog) = 2
    /\ refresh[tokenLog[1].by].state = "fulfilled"
    /\ IssuedToken(refresh[tokenLog[1].by].res.text) = "T2"
    /\ RefreshRefused(tokenLog[2].by)
    /\ refreshInFlight = NoPromise
    /\ accessTokenCache = "T2"

EnvNames == {"CC_BASE_URL", "CC_CLIENT_ID", "CC_ACCESS_TOKEN", "CC_REFRESH_TOKEN"}
Missing == {name \in EnvNames : env[name] = Absent}
Started(t) == pc[t] # "idle"
FailedWithMissing(t, name) ==
    /\ pc[t] \in {"failed", "returned"}
    /\ pc[t] = "failed" => result[t] = Thrown(MissingEnv(name))

(* C13, as claimed: when any of the four configuration items is missing, a  *)
(* call fails with a configuration error naming a missing item before any   *)
(* upstream request is sent.                                                *)
C13_AsClaimed ==
    Missing # {} =>
       \A t \in Calls :
          Started(t) =>
             /\ sent[t] = <<>>
             /\ tokenLog = <<>>
             /\ \E name \in Missing : FailedWithMissing(t, name)

(* C13, amended: a missing base URL or access token fails every call before *)
(* any request is sent, with an error naming it (the base URL when both are *)
(* missing).  A missing client identifier or refresh token fails only the   *)
(* calls that need a refresh, after their first data request was answered   *)
(* 401, with an error naming it (the client identifier when both are        *)
(* missing), and no request is ever sent to the token endpoint.             *)
C13_ConfigErrors ==
    /\ Missing # {} => tokenLog = <<>>
    /\ "CC_BASE_URL" \in Missing =>
          \A t \in Calls :
             Started(t) => sent[t] = <<>> /\ FailedWithMissing(t, "CC_BASE_URL")
    /\ ("CC_BASE_URL" \notin Missing /\ "CC_ACCESS_TOKEN" \in Missing) =>
          \A t \in Calls :
             Started(t) => sent[t] = <<>> /\ FailedWithMissing(t, "CC_ACCESS_TOKEN")
    /\ (Missing \cap {"CC_BASE_URL", "CC_ACCESS_TOKEN"} = {}
          /\ Missing \cap {"CC_CLIENT_ID", "CC_REFRESH_TOKEN"} # {}) =>
          \A t \in Calls :
             /\ Started(t) => Len(sent[t]) = 1
             /\ Started(t) => sent[t][1].token = env.CC_ACCESS_TOKEN
             /\ (pc[t] = "failed" /\ result[t].error \in {MissingEnv(n) : n \in EnvNames}) =>
                   Handled401(t)
             /\ (Handled401(t) /\ pc[t] # "awaitRefresh") =>
                   FailedWithMissing(t, IF "CC_CLIENT_ID" \in Missing
                                        THEN "CC_CLIENT_ID" ELSE "CC_REFRESH_TOKEN")

(* With the client identifier missing, a call has sent its data request,    *)
(* was answered 401 and has failed with the error naming CC_CLIENT_ID.      *)
C13_Witness ==
    /\ Missing = {"CC_CLIENT_ID"}
    /\ \E t \in Calls :
          /\ pc[t] = "failed" /\ Len(sent[t]) = 1
          /\ result[t] = Thrown(MissingEnv("CC_CLIENT_ID"))
          /\ tokenLog = <<>>

(* What holds of a call that needed a refresh which failed on the missing   *)
(* item `name`.                                                             *)
RefreshFailedOnMissing(t, name) ==
    /\ FailedWithMissing(t, name)
    /\ ~Retried(t)
    /\ refreshInFlight # t
    /\ pc[t] = "failed" => refreshInFlight = NoPromise

(* C14, as claimed: with the refresh token missing, every call that needs a *)
(* refresh fails with a configuration error naming the refresh token, no    *)
(* request goes to the token endpoint, the stored access token is unchanged *)
(* and the pending-refresh slot is cleared.                                 *)
C14_AsClaimed ==
    "CC_REFRESH_TOKEN" \in Missing =>
       /\ tokenLog = <<>>
       /\ accessTokenCache = env.CC_ACCESS_TOKEN
       /\ \A t \in Calls :
             (Handled401(t) /\ pc[t] # "awaitRefresh") =>
                RefreshFailedOnMissing(t, "CC_REFRESH_TOKEN")

(* C14, amended: the same, with the error naming the refresh token when the *)
(* client identifier is set, and naming the client identifier when that is  *)
(* missing as well.                                                         *)
C14_RefreshTokenMissing ==
    "CC_REFRESH_TOKEN" \in Missing =>
       /\ tokenLog = <<>>
       /\ accessTokenCache = env.CC_ACCESS_TOKEN
       /\ \A t \in Calls :
             (Handled401(t) /\ pc[t] # "awaitRefresh") =>
                RefreshFailedOnMissing(t, IF "CC_CLIENT_ID" \in Missing
                                          THEN "CC_CLIENT_ID" ELSE "CC_REFRESH_TOKEN")

(* With only the refresh token missing, a call was answered 401, its        *)
(* refresh was rejected before any request, the slot is cleared again and   *)
(* the call has failed with the error naming CC_REFRESH_TOKEN.              *)
C14_Witness ==
    /\ Missing = {"CC_REFRESH_TOKEN"}
    /\ refreshInFlight = NoPromise
    /\ tokenLog = <<>>
    /\ \E t \in Calls :
          /\ awaiting[t] = t /\ refresh[t].state = "rejected"
          /\ pc[t] = "failed" /\ Len(sent[t]) = 1
          /\ result[t] = Thrown(MissingEnv("CC_REFRESH_TOKEN"))

(* C15: getAccessToken gives the in-memory token when there is one,         *)
(* otherwise the configured token, and fails when there is neither: a call  *)
(* started with a token in memory sends that token; a call started with no  *)
(* token anywhere fails with the error naming CC_ACCESS_TOKEN, sends no     *)
(* data request and enters no refresh.                                      *)
C15_GetAccessToken ==
    /\ [](\A cache \in {Absent, "T1", "T2", "T3"} :
            \A e \in Configs :
               getAccessToken(cache, e) =
                  IF cache # Absent THEN cache
                  ELSE IF e.CC_ACCESS_TOKEN # Absent THEN e.CC_ACCESS_TOKEN
                  ELSE Absent)
    /\ []((accessTokenCache = Absent /\ "CC_ACCESS_TOKEN" \in Missing
             /\ "CC_BASE_URL" \notin Missing) =>
            /\ tokenLog = <<>>
            /\ refreshInFlight = NoPromise
            /\ \A t \in Calls :
                  Started(t) =>
                     /\ sent[t] = <<>>
                     /\ slotAtCatch[t] = <<>>
                     /\ awaiting[t] = NoPromise
                     /\ FailedWithMissing(t, "CC_ACCESS_TOKEN"))
    /\ [][\A t \in Calls :
             (pc[t] = "idle" /\ pc'[t] # "idle" /\ "CC_BASE_URL" \notin Missing) =>
                IF accessTokenCache # Absent
                THEN /\ pc'[t] = "fetch1"
                     /\ Len(sent'[t]) = 1
                     /\ sent'[t][1].token = accessTokenCache
                     /\ sent'[t][1].authorization = "Bearer " \o accessTokenCache
                ELSE /\ pc'[t] = "failed"
                     /\ sent'[t] = <<>>
                     /\ result'[t] = Thrown(MissingEnv("CC_ACCESS_TOKEN"))
         ]_vars

(* With no access token configured, a call has failed naming                *)
(* CC_ACCESS_TOKEN without sending anything.                                *)
C15_Witness ==
    /\ Missing = {"CC_ACCESS_TOKEN"}
    /\ accessTokenCache = Absent
    /\ \E t \in Calls :
          /\ pc[t] = "failed" /\ sent[t] = <<>>
          /\ result[t] = Thrown(MissingEnv("CC_ACCESS_TOKEN"))
          /\ tokenLog = <<>>

(* The access_token field of a token response body, if it has one.          *)
AccessTokenOf(text) ==
    CASE text = Token2Text -> "T2"
      [] text = Token3Text -> "T3"
      [] OTHER -> Absent

(* The token endpoint answered refresh p with a 2xx and no access_token.    *)
GrantedWithoutToken(p) ==
    /\ Settled(p)
    /\ refresh[p].res.status \in 200..299
    /\ AccessTokenOf(refresh[p].res.text) = Absent

(* C16: when the token endpoint answers a refresh with a success status and *)
(* a body without access_token, the refresh is rejected with an error, the  *)
(* stored access token stays what it was when the refresh began, the slot   *)
(* is cleared, and each call that awaited the refresh fails with that       *)
(* error without sending a retry.                                           *)
C16_NoAccessTokenIsAnError ==
    \A p \in Calls :
       GrantedWithoutToken(p) =>
          /\ refresh[p].state = "rejected"
          /\ refresh[p].error = NoAccessTokenError
          /\ refresh[p].value = Absent
          /\ refreshInFlight = p => accessTokenCache = refresh[p].cacheAtStart
          /\ \A t \in Calls :
                (awaiting[t] = p /\ pc[t] \notin {"awaitRefresh", "returned"}) =>
                   /\ pc[t] = "failed"
                   /\ ~Retried(t)
                   /\ result[t] = Thrown(refresh[p].error)
                   /\ refreshInFlight = NoPromise
                   /\ accessTokenCache = refresh[p].cacheAtStart

(* The token endpoint answered 200 with `{}`: the call that started the     *)
(* refresh and the call that joined it have both failed, the slot is        *)
(* cleared and the stored token is still T1.                                *)
C16_Witness ==
    \E a \in Calls, b \in Calls :
       /\ a # b /\ awaiting[a] = a /\ awaiting[b] = a
       /\ refresh[a].res = [status |-> 200, text |-> BraceText]
       /\ pc[a] = "failed" /\ pc[b] = "failed"
       /\ result[b] = Thrown(NoAccessTokenError)
       /\ refreshInFlight = NoPromise
       /\ accessTokenCache = "T1"

(* C17: the error with which a call fails when the token endpoint refused   *)
(* its refresh differs from the error with which a call fails when the      *)
(* contact service refuses a data request with the same status and body.    *)
C17_AuthErrorDistinguishable ==
    \A t \in Calls :
       (pc[t] = "failed" /\ awaiting[t] # NoPromise /\ ~Retried(t)
          /\ RefreshRefused(awaiting[t])) =>
          LET r == refresh[awaiting[t]].res
          IN  /\ result[t].error # DataError(r.status, r.text)
              /\ HandlerResponse(result[t]) # HandlerResponse(Thrown(DataError(r.status, r.text)))

(* C18: the retry of a call is its first request again: the same URL (base, *)
(* path and query), method, Accept and Content-Type headers and body; only  *)
(* the bearer token differs, and it is the access_token of the response to  *)
(* the refresh the call awaited.                                            *)
C18_RetryIsSameRequest ==
    \A t \in Calls :
       Retried(t) =>
          LET first == sent[t][1]
              retry == sent[t][2]
              token == AccessTokenOf(refresh[awaiting[t]].res.text)
          IN  /\ retry.url = first.url
              /\ retry.method = first.method
              /\ retry.accept = first.accept
              /\ retry.contentType = first.contentType
              /\ retry.body = first.body
              /\ refresh[awaiting[t]].state = "fulfilled"
              /\ token # Absent
              /\ retry.token = token
              /\ retry.authorization = "Bearer " \o token
              /\ retry = [first EXCEPT !.token = token,
                                       !.authorization = "Bearer " \o token]

(* The POST of a contact, first sent with T1, has been sent again with T2   *)
(* and the same body, and the list request likewise with its query.         *)
C18_Witness ==
    \E t \in Calls, u \in Calls :
       /\ Retried(t) /\ Retried(u)
       /\ sent[t][1].method = "POST" /\ sent[t][1].body # Absent
       /\ sent[t][1].token = "T1" /\ sent[t][2].token = "T2"
       /\ sent[t][2].body = sent[t][1].body
       /\ sent[u][1].method = "GET" /\ sent[u][2].url.params = {<<"limit", "10">>}

(* C19: every POST to the token endpoint carries the configured refresh     *)
(* token and client identifier, also after a refresh whose response         *)
(* carried a refresh_token of its own.                                      *)
C19_RefreshCredentialsStatic ==
    \A i \in 1..Len(tokenLog) :
       /\ tokenLog[i].grant_type = "refresh_token"
       /\ tokenLog[i].refresh_token = env.CC_REFRESH_TOKEN
       /\ tokenLog[i].refresh_token = "R1"
       /\ tokenLog[i].client_id = env.CC_CLIENT_ID
       /\ tokenLog[i].client_id = "client-1"

(* A first refresh was answered with access_token T2 and refresh_token R2;  *)
(* the second refresh has been sent with R1.                                *)
C19_Witness ==
    /\ Len(tokenLog) = 2
    /\ refresh[tokenLog[1].by].state = "fulfilled"
    /\ refresh[tokenLog[1].by].res.text = Token2Text
    /\ tokenLog[2].refresh_token = "R1"
    /\ accessTokenCache = "T2"

(* C20: a handler answers with the status ccFetchJson returned and the data *)
(* as body, or with the status the error carries (500 when it carries none) *)
(* and the error's message and details as body.                             *)
C20_HandlersPassStatus ==
    [][\A t \in Calls :
          (pc[t] \in {"done", "failed"} /\ pc'[t] = "returned") =>
             IF result[t].kind = "ok"
             THEN /\ response'[t].status = result[t].status
                  /\ response'[t].body = DataBody(result[t].data)
             ELSE /\ response'[t].status =
                        IF result[t].error.status = NoStatus
                        THEN 500 ELSE result[t].error.status
                  /\ response'[t].body =
                        ErrorBody(result[t].error.message, result[t].error.details)
      ]_vars

(* C25: a call started while a refresh is pending is not held back: in the  *)
(* step that starts it, its first request is sent with the access token     *)
(* stored at that moment, which is the token the pending refresh started    *)
(* from, and it neither joins nor starts a refresh; a call comes to await a *)
(* refresh only in the catch block, with the 401 of its first attempt.      *)
C25_StartDoesNotWaitForRefresh ==
    [][\A t \in Calls :
          /\ (pc[t] = "idle" /\ pc'[t] # "idle" /\ refreshInFlight # NoPromise) =>
                /\ pc'[t] = "fetch1"
                /\ Len(sent'[t]) = 1
                /\ sent'[t][1].token = accessTokenCache
                /\ sent'[t][1].token = refresh[refreshInFlight].cacheAtStart
                /\ awaiting'[t] = NoPromise
                /\ UNCHANGED <<accessTokenCache, refreshInFlight, refresh, waiters,
                               tokenLog>>
          /\ (awaiting[t] = NoPromise /\ awaiting'[t] # NoPromise) =>
                /\ pc[t] = "catch" /\ pc'[t] = "awaitRefresh"
                /\ Len(sent[t]) = 1
                /\ res[t].status = 401
                /\ caught[t].status = 401
      ]_vars

(* Call 2 was started while the refresh of call 1 was in flight and has     *)
(* sent its first request with T1.                                          *)
C25_Witness ==
    /\ InFlight(1) /\ refreshInFlight = 1
    /\ pc[2] = "fetch1" /\ 2 \notin burst
    /\ sent[2][1].token = "T1"
    /\ awaiting[2] = NoPromise

(* C30: the pending-refresh slot goes from a promise to absent only in the  *)
(* finally block of the task that created that promise (a promise is named  *)
(* after the call that created it), and only once the promise has settled.  *)
C30_SlotClearedOnlyByCreator ==
    [][(refreshInFlight # NoPromise /\ refreshInFlight' = NoPromise) =>
          /\ Settled(refreshInFlight)
          /\ mq # <<>>
          /\ Head(mq) = <<"finally", refreshInFlight>>
          /\ pc[refreshInFlight] = "awaitRefresh"
          /\ awaiting[refreshInFlight] = refreshInFlight
      ]_vars

(* The creator's finally block has just cleared the slot of a settled       *)
(* refresh that call 2 had joined; the creator is the first to resume.      *)
C30_Witness ==
    /\ refreshInFlight = NoPromise
    /\ Settled(1)
    /\ awaiting[1] = 1 /\ awaiting[2] = 1
    /\ mq # <<>> /\ Head(mq) = <<"resume", 1>>

Terminated(t) == pc[t] \in {"done", "failed", "returned"}

(* C27: when every network call settles, every started ccFetchJson call     *)
(* returns or throws, whatever the answers and however the calls overlap:   *)
(* a call sends at most two data requests and awaits at most one refresh.   *)
C27_CallsTerminate ==
    /\ \A t \in Calls : Started(t) ~> Terminated(t)
    /\ [](\A t \in Calls : Len(sent[t]) <= 2)

(* Both calls retried after a 401 and have ended, call 2 with the 401 that  *)
(* answered its retry; two refreshes were made.                             *)
C27_Witness ==
    /\ pc[1] = "returned"
    /\ pc[2] = "failed"
    /\ \A t \in Calls : Len(sent[t]) = 2 /\ when401[t] # "never"
    /\ result[2].error.status = Unauthorized
    /\ Len(tokenLog) = 2

Hung(p) == refresh[p].state = "fetching"

(* C26: while the token-endpoint request of the pending refresh p is        *)
(* unanswered, the slot holds p, no request is sent to the token endpoint,  *)
(* every call that handles a 401 joins p, and a call awaiting p stays       *)
(* suspended; a call whose answers are not 401 still ends, so a started     *)
(* call ends unless it awaits a refresh after a 401.                        *)
C26_HungRefresh ==
    /\ [](\A p \in Calls : Hung(p) =>
             /\ refreshInFlight = p
             /\ \A t \in Calls : awaiting[t] = p =>
                    pc[t] = "awaitRefresh" /\ when401[t] # "never")
    /\ [][\A p \in Calls : Hung(p) =>
             /\ tokenLog' = tokenLog
             /\ refreshInFlight' = p
             /\ \A t \in Calls :
                   (pc[t] = "catch" /\ pc'[t] # "catch"
                      /\ caught[t].status = Unauthorized) =>
                        pc'[t] = "awaitRefresh" /\ awaiting'[t] = p
         ]_vars
    /\ \A t \in Calls :
          Started(t) ~> (Terminated(t) \/ (pc[t] = "awaitRefresh" /\ when401[t] # "never"))

(* The token endpoint has not answered the refresh of call 1, which is      *)
(* suspended on it; call 2, started meanwhile and answered 200, has ended.  *)
C26_Witness ==
    /\ Hung(1) /\ refreshInFlight = 1
    /\ pc[1] = "awaitRefresh"
    /\ 2 \notin burst
    /\ pc[2] = "returned" /\ when401[2] = "never" /\ Len(sent[2]) = 1

(* C29: whenever the detail modal shows a loaded contact (it is open, not   *)
(* loading, and a contact is selected), that contact is the one whose id is *)
(* selectedId.                                                              *)
C29_ModalShowsSelectedContact ==
    (open /\ ~modalLoading /\ selected # NoContact) =>
        selected.contact_id = selectedId

(* The request of call t was given to the POST handler with a JSON body. *)
Created(t) == request[t].handler = "create" /\ request[t].json
(* The handler of call t answered the request itself and sent nothing. *)
NotForwarded(t) == pc[t] = "returned" /\ sent[t] = <<>> /\ opts[t] = ListOpts
(* The response of the handler of call t, while it is being written, is 400. *)
Answered400(t) == response[t] # NoResponse => response[t].status = 400
(* A property of the body that is a non-blank string. *)
NonBlank(v) == v.type = "string" /\ Trim(v.str) # ""

(* C21: POST /api/contacts forwards a body with an e-mail address only when *)
(* its permission_to_send is 'explicit'; with any other permission the      *)
(* request is answered 400 and nothing is sent upstream.                    *)
C21_EmailNeedsExplicitPermission ==
    \A t \in Calls :
        (/\ Created(t)
         /\ CreateLocals(request[t].body).email # ""
         /\ CreateLocals(request[t].body).permission # "explicit") =>
            NotForwarded(t) /\ Answered400(t)

(* C22: POST /api/contacts answers 400, and sends nothing, when exactly one *)
(* of birthday_month and birthday_day is given, and a payload it forwards   *)
(* has both or neither.                                                     *)
C22_BirthdayTogether ==
    \A t \in Calls : Created(t) =>
        /\ ((request[t].body["birthday_month"].type = "undefined")
               # (request[t].body["birthday_day"].type = "undefined")) =>
                NotForwarded(t) /\ Answered400(t)
        /\ sent[t] # <<>> =>
              ((opts[t].body["birthday_month"].type = "undefined")
                 = (opts[t].body["birthday_day"].type = "undefined"))

(* The decimal numerals among the modelled limit texts. *)
IntegerTexts == {"1", "25", "50", "500", "0", "501", "-3"}
(* The limit the claim has forwarded for the request: 50 when none is given, *)
(* the integer given when it is in 1..500, none (0) otherwise.              *)
ClaimedLimit(v) ==
    IF v = NullParam THEN 50
    ELSE IF v \in IntegerTexts /\ parseInt(v).n >= 1 /\ parseInt(v).n <= 500
    THEN parseInt(v).n
    ELSE 0

(* C23: GET /api/contacts forwards limit=50 when no limit is given and the  *)
(* given limit when it is an integer in 1..500; in every other case it      *)
(* answers 400 and sends nothing upstream.                                  *)
C23_LimitForwardedOrRejected ==
    \A t \in Calls : request[t].handler = "list" =>
        IF ClaimedLimit(request[t].limit) = 0
        THEN NotForwarded(t) /\ Answered400(t)
        ELSE /\ sent[t] # <<>> =>
                  {p \in sent[t][1].url.params : p[1] = "limit"}
                     = {<<"limit", ToString(ClaimedLimit(request[t].limit))>>}
             /\ request[t] = [ListRequest EXCEPT !.limit = request[t].limit] =>
                  sent[t] # <<>>

(* The body gives none of first_name, last_name, an e-mail address, an SMS  *)
(* address or SMS consents.                                                 *)
NothingIdentifying(body) ==
    /\ \A path \in {"first_name", "last_name", "email_address.address", "email_address",
                     "email", "sms_full_address", "sms_channel.sms_address"} :
           ~NonBlank(body[path])
    /\ parseJsonArray(body["sms_channel_consents"]).n = 0
    /\ parseJsonArray(body["sms_channel.sms_channel_consents"]).n = 0

ValidationErrors ==
    {"Bad request: contact_id must be a UUID.",
     "Bad request: include cannot be empty. Example: include=phone_numbers,street_addresses",
     "Bad request: limit must be an integer between 1 and 500.",
     "Bad request: include_count must be true or false.",
     "Bad request: invalid include \"orders\".",
     "Bad request: invalid status \"gone\".",
     "Bad request: invalid sms_status \"implicit\".",
     "Bad request: lists can have at most 25 items.",
     "Bad request: tags can have at most 50 items.",
     "Bad request: permission_to_send is required when email_address is provided.",
     "Bad request: sms_channel_consents must be a non-empty JSON array when sms_full_address is provided.",
     "Bad request: At least one of first_name, last_name, email_address, or sms_channel is required.",
     "Bad request: phone_numbers can have at most 3 items.",
     "Bad request: street_addresses can have at most 3 items.",
     "Bad request: custom_fields can have at most 25 items.",
     "Bad request: notes can have at most 150 items.",
     "Bad request: list_memberships can have at most 50 items.",
     "Bad request: taggings can have at most 50 items."}

(* A response a handler made in its validation: { error } without details. *)
OwnRejection(r) == r # NoResponse /\ r.body.details = NoDetails

(* C28: a handler that rejects a request in its own validation has not      *)
(* called ccFetchJson: the step that makes the 400 response sends no        *)
(* request, starts and joins no refresh and leaves the stored token as it   *)
(* is, and the call never sends anything later.  Each of the validations is *)
(* among the requests examined, and all three handlers are.                 *)
C28_RejectsBeforeCalling ==
    /\ \A m \in ValidationErrors :
          \E t \in Calls : \E rq \in RequestsFor(t) : Handler(rq) = Reject(m)
    /\ \A rq \in ListRequests \cup GetRequests \cup CreateRequests :
          Handler(rq).kind = "reject" =>
          Handler(rq).response.body.error \in ValidationErrors
    /\ [](\A t \in Calls :
            (request[t] # NoRequest /\ Handler(request[t]).kind = "reject") =>
                /\ pc[t] = "returned"
                /\ sent[t] = <<>>
                /\ awaiting[t] = NoPromise
                /\ refresh[t] = NoRefresh
                /\ \A i \in 1..Len(tokenLog) : tokenLog[i].by # t)
    /\ [][\A t \in Calls :
            (response[t] = NoResponse /\ OwnRejection(response'[t])) =>
                /\ response'[t].status = 400
                /\ response'[t].body.error \in ValidationErrors
                /\ pc[t] = "idle" /\ pc'[t] = "returned"
                /\ sent[t] = <<>>
                /\ UNCHANGED <<sent, tokenLog, accessTokenCache, refreshInFlight, refresh,
                               waiters, awaiting, opts, env>>
         ]_vars

(* The POST handler has rejected a request (the permission is missing)      *)
(* while the refresh started for call 1 is in flight: nothing was sent for  *)
(* it and the stored token is the one the refresh started from.             *)
C28_Witness ==
    /\ InFlight(1) /\ refreshInFlight = 1
    /\ request[2].handler = "create"
    /\ OwnRejection(response[2])
    /\ response[2].body.error
         = "Bad request: permission_to_send is required when email_address is provided."
    /\ sent[2] = <<>>
    /\ accessTokenCache = refresh[1].cacheAtStart
    /\ Len(tokenLog) = 1

=============================================================================
